---- MODULE Spec2Model ----
(***************************************************************************)
(* A model of the interactive diagram editor (InteractiveDiagramEditor):   *)
(* the XML codec (parseXmlToElements / elementsToXml), the edit            *)
(* operations, the undo/redo history and the pointer/keyboard handlers.    *)
(*                                                                         *)
(* Conventions.                                                            *)
(*  - Numbers are integers; the inputs are chosen so that every halving    *)
(*    the code performs is exact (Half has no value otherwise, and TLC     *)
(*    stops with an error instead of rounding).                            *)
(*  - An XML document is represented by its tree: a sequence of mxCell     *)
(*    records in document order.  An attribute is a record [has, v];       *)
(*    a numeric attribute keeps the kind of its text (a number, junk, the  *)
(*    empty string, or absent).                                            *)
(*  - A style string is the sequence of its ';'-separated segments, each   *)
(*    the sequence of its '='-separated parts; << >> is the empty string.  *)
(*  - A React handler reads the state of the render it was created in and  *)
(*    its state updates are applied together when it returns: an action    *)
(*    reads the unprimed variables (the closure) and sets the primed ones. *)
(***************************************************************************)
EXTENDS Integers, Sequences, FiniteSets, TLC

VARIABLES
    xml,                 \* the xml prop (the base document of elementsToXml)
    elements,            \* useState: the live scene
    selectedElement,     \* useState: id of the selected element, or Null
    isDragging, isResizing, isRotating,
    dragOffset, dragStart,
    resizeHandle,
    isEditingText, editText,
    rotationCenter,
    clipboard,           \* useState: a copied element, or NoElement
    history, historyIndex,
    currentTool, arrowSource,
    dragMode, dragPointIndex, initialEdgePoints,
    initialRotatePoints,
    emitted,             \* the last document handed to onXmlUpdate
    lastOp,              \* the handler that ran last, and what it did
    buttonDown,          \* the mouse button is held (pointer environment)
    idCounter,           \* source of the fresh id suffixes
    deleteSeen,          \* a delete has been performed since mounting
    usedIds,             \* ids carried by a cell or element in an earlier state
    editor,              \* the component mounted: "full", "basic" or "canvas"
    pendingChat,         \* the timer handleSendMessage has set, or NoRequest
    stepsLeft            \* number of events the model still delivers

vars == << xml, elements, selectedElement, isDragging, isResizing, isRotating,
           dragOffset, dragStart, resizeHandle, isEditingText, editText,
           rotationCenter, clipboard, history, historyIndex, currentTool,
           arrowSource, dragMode, dragPointIndex, initialEdgePoints,
           initialRotatePoints, emitted, lastOp, buttonDown, idCounter,
           deleteSeen, usedIds, editor, pendingChat, stepsLeft >>

---------------------------------------------------------------------------
(* Bounds of the model *)

MaxSteps == 4
MaxResizeSteps == 4
MaxPointIndex == 3

---------------------------------------------------------------------------
(* Values *)

Null == "null"                      \* JavaScript null for an id-valued state
NoRotation == 0 - 1                 \* the rotation field is absent
NoIndex == 0 - 1                    \* dragPointIndex === null
NaN == 0 - 999999                   \* parseFloat of an unparsable text

Pt(px, py) == [x |-> px, y |-> py]

(* n / 2, for the n whose half is a whole number; an event whose result   *)
(* would not be a whole number is outside the model (see the Whole guards) *)
Half(n) == CASE n % 2 = 0 -> n \div 2
Whole(n) == n % 2 = 0

Min2(a, b) == IF a <= b THEN a ELSE b
Max2(a, b) == IF a >= b THEN a ELSE b
Abs(a) == IF a < 0 THEN 0 - a ELSE a

RECURSIVE MinOf(_, _), MaxOf(_, _)
MinOf(s, f) == IF Len(s) = 1 THEN s[1][f]
               ELSE Min2(s[1][f], MinOf(Tail(s), f))
MaxOf(s, f) == IF Len(s) = 1 THEN s[1][f]
               ELSE Max2(s[1][f], MaxOf(Tail(s), f))

(* x, y, width, height as the min/max box of a non-empty point list *)
BoundsOf(pts) ==
    [x |-> MinOf(pts, "x"), y |-> MinOf(pts, "y"),
     width |-> MaxOf(pts, "x") - MinOf(pts, "x"),
     height |-> MaxOf(pts, "y") - MinOf(pts, "y")]

SeqFilter(s, Keep(_)) ==
    LET F[i \in 0..Len(s)] ==
            IF i = 0 THEN << >>
            ELSE IF Keep(s[i]) THEN Append(F[i - 1], s[i]) ELSE F[i - 1]
    IN F[Len(s)]

(* << F(1), ..., F(n) >>, built element by element *)
SeqOf(n, F(_)) ==
    LET M[i \in 0..n] == IF i = 0 THEN << >> ELSE Append(M[i - 1], F(i))
    IN M[n]

(* Array.prototype.map *)
SeqMap(s, F(_)) == SeqOf(Len(s), LAMBDA i : F(s[i]))

(* Array.prototype.find on the id: the first element with that id, or 0 *)
FindIndex(els, id) ==
    IF \E i \in 1..Len(els) : els[i].id = id
    THEN CHOOSE i \in 1..Len(els) :
            els[i].id = id /\ \A j \in 1..(i - 1) : els[j].id # id
    ELSE 0

---------------------------------------------------------------------------
(* Style strings *)

EmptyStyle == << >>

StyleSeg(k, v) == << k, v >>
TrailingSemi == << "" >>

(* parseStyle: an insertion-ordered key/value mapping, as a sequence of   *)
(* << key, value >>; a later write to a key keeps the key's position.     *)
StyleSet(obj, k, v) ==
    IF \E i \in 1..Len(obj) : obj[i][1] = k
    THEN SeqMap(obj, LAMBDA e : IF e[1] = k THEN << k, v >> ELSE e)
    ELSE Append(obj, << k, v >>)

RECURSIVE parseStyleFrom(_, _)
parseStyleFrom(obj, segs) ==
    IF segs = << >> THEN obj
    ELSE LET pair == Head(segs)
             key == pair[1]
             hasValue == Len(pair) >= 2
         IN IF key # "" /\ hasValue /\ pair[2] # ""
            THEN parseStyleFrom(StyleSet(obj, key, pair[2]), Tail(segs))
            ELSE parseStyleFrom(obj, Tail(segs))

parseStyle(style) == parseStyleFrom(<< >>, style)

stringifyStyle(obj) ==
    SeqFilter(obj, LAMBDA e : e[1] # "" /\ e[2] # "")

getShapeStyle ==
    << StyleSeg("shape", "rectangle"), StyleSeg("fillColor", "#ffffff"),
       StyleSeg("strokeColor", "#000000"), StyleSeg("strokeWidth", "1"),
       TrailingSemi >>

getArrowStyle ==
    << StyleSeg("edgeStyle", "straight"), StyleSeg("endArrow", "classic"),
       StyleSeg("strokeColor", "#333"), StyleSeg("strokeWidth", "2"),
       TrailingSemi >>

---------------------------------------------------------------------------
(* Scene elements (DiagramElement) *)

Vertex(id, x, y, w, h, value, style) ==
    [id |-> id, type |-> "vertex", x |-> x, y |-> y, width |-> w,
     height |-> h, value |-> value, style |-> style,
     source |-> "", target |-> "", points |-> << >>,
     rotation |-> NoRotation]

Edge(id, x, y, w, h, value, style, source, target, points) ==
    [id |-> id, type |-> "edge", x |-> x, y |-> y, width |-> w,
     height |-> h, value |-> value, style |-> style,
     source |-> source, target |-> target, points |-> points,
     rotation |-> NoRotation]

NoElement == Vertex(Null, 0, 0, 0, 0, "", EmptyStyle)

(* the two-point fallback the code uses for an edge without points *)
PointsOrBox(el) ==
    IF Len(el.points) > 0 THEN el.points
    ELSE << Pt(el.x, el.y), Pt(el.x + el.width, el.y + el.height) >>

---------------------------------------------------------------------------
(* XML documents *)

Attr(v) == [has |-> TRUE, v |-> v]
NoAttr == [has |-> FALSE, v |-> ""]
NoStyleAttr == [has |-> FALSE, v |-> EmptyStyle]

(* getAttribute(name) || dflt, for text and for style attributes *)
AttrOr(a, dflt) == IF a.has /\ a.v # "" THEN a.v ELSE dflt
StyleAttrOr(a) == IF a.has THEN a.v ELSE EmptyStyle

Num(n) == [k |-> "num", v |-> n]           \* the text String(n)
NoNum == [k |-> "absent", v |-> 0]
EmptyNum == [k |-> "empty", v |-> 0]
JunkNum == [k |-> "junk", v |-> 0]

(* parseFloat(getAttribute(name) || String(dflt)) *)
ParseFloatOr(a, dflt) ==
    CASE a.k = "num" -> a.v
      [] a.k = "junk" -> NaN
      [] OTHER -> dflt

MxPoint(as, px, py) ==
    [tag |-> "mxPoint", as |-> as, x |-> px, y |-> py, pts |-> << >>]
MxArray(as, pts) ==
    [tag |-> "Array", as |-> as, x |-> NoNum, y |-> NoNum, pts |-> pts]

MxGeometry(x, y, w, h, relative, kids) ==
    [x |-> x, y |-> y, width |-> w, height |-> h, relative |-> relative,
     as |-> Attr("geometry"), kids |-> kids]

MxCell(id, value, style, vertex, edge, source, target, parent, geoms) ==
    [id |-> id, value |-> value, style |-> style, vertex |-> vertex,
     edge |-> edge, source |-> source, target |-> target,
     parent |-> parent, geoms |-> geoms]

XmlDoc(cells) == [kind |-> "doc", cells |-> cells]
EmptyXml == [kind |-> "empty", cells |-> << >>]

RootCell(id) ==
    MxCell(Attr(id), NoAttr, NoStyleAttr, NoAttr, NoAttr, NoAttr, NoAttr,
           IF id = "0" THEN NoAttr ELSE Attr("0"), << >>)

(* the descendants of a cell below its geometries, in document order *)
RECURSIVE KidsOf(_)
KidsOf(geoms) ==
    IF geoms = << >> THEN << >>
    ELSE Head(geoms).kids \o KidsOf(Tail(geoms))

---------------------------------------------------------------------------
(* parseXmlToElements *)

FirstWhere(s, P(_)) ==
    IF \E i \in 1..Len(s) : P(s[i])
    THEN CHOOSE i \in 1..Len(s) : P(s[i]) /\ \A j \in 1..(i - 1) : ~P(s[j])
    ELSE 0

parseEdgeCell(cell) ==
    LET kids == KidsOf(cell.geoms)
        arrayAt == FirstWhere(kids, LAMBDA n : n.tag = "Array")
        points == IF arrayAt = 0 THEN << >>
                  ELSE SeqMap(kids[arrayAt].pts,
                              LAMBDA p : Pt(ParseFloatOr(p.x, 0),
                                            ParseFloatOr(p.y, 0)))
        srcAt == FirstWhere(kids, LAMBDA n : n.tag = "mxPoint"
                                     /\ n.as = Attr("sourcePoint"))
        tgtAt == FirstWhere(kids, LAMBDA n : n.tag = "mxPoint"
                                     /\ n.as = Attr("targetPoint"))
        both == srcAt # 0 /\ tgtAt # 0
        sx == ParseFloatOr(kids[srcAt].x, 0)
        sy == ParseFloatOr(kids[srcAt].y, 0)
        tx == ParseFloatOr(kids[tgtAt].x, 0)
        ty == ParseFloatOr(kids[tgtAt].y, 0)
    IN Edge(AttrOr(cell.id, ""),
            IF both THEN Min2(sx, tx) ELSE 0,
            IF both THEN Min2(sy, ty) ELSE 0,
            IF both THEN Abs(tx - sx) ELSE 0,
            IF both THEN Abs(ty - sy) ELSE 0,
            AttrOr(cell.value, ""), StyleAttrOr(cell.style),
            AttrOr(cell.source, ""), AttrOr(cell.target, ""), points)

parseVertexCell(cell) ==
    LET geometry == cell.geoms[1]
    IN Vertex(AttrOr(cell.id, ""),
              ParseFloatOr(geometry.x, 0), ParseFloatOr(geometry.y, 0),
              ParseFloatOr(geometry.width, 120),
              ParseFloatOr(geometry.height, 60),
              AttrOr(cell.value, ""), StyleAttrOr(cell.style))

(* parseCells with every cell that lacks a geometry skipped, edges too *)
RECURSIVE parseCellsWithGeometry(_)
parseCellsWithGeometry(cells) ==
    IF cells = << >> THEN << >>
    ELSE LET cell == Head(cells)
             id == AttrOr(cell.id, "")
         IN IF id = "0" \/ id = "1" \/ cell.geoms = << >>
            THEN parseCellsWithGeometry(Tail(cells))
            ELSE IF cell.edge = Attr("1")
                 THEN << parseEdgeCell(cell) >> \o parseCellsWithGeometry(Tail(cells))
            ELSE << parseVertexCell(cell) >> \o parseCellsWithGeometry(Tail(cells))

RECURSIVE parseCells(_)
parseCells(cells) ==
    IF cells = << >> THEN << >>
    ELSE LET cell == Head(cells)
             id == AttrOr(cell.id, "")
         IN IF id = "0" \/ id = "1" THEN parseCells(Tail(cells))
            ELSE IF cell.edge = Attr("1")
                 THEN << parseEdgeCell(cell) >> \o parseCells(Tail(cells))
            ELSE IF cell.geoms # << >>
                 THEN << parseVertexCell(cell) >> \o parseCells(Tail(cells))
            ELSE parseCells(Tail(cells))

parseXmlToElements(xmlString) ==
    IF xmlString.kind = "empty" THEN << >> ELSE parseCells(xmlString.cells)

---------------------------------------------------------------------------
(* elementsToXml *)

StyleAttrIf(style, old) == IF style # EmptyStyle THEN Attr(style) ELSE old
AttrIf(text, old) == IF text # "" THEN Attr(text) ELSE old

(* sourcePoint, targetPoint and, for more than two points, the waypoints *)
EdgeGeometryKids(el) ==
    LET points == PointsOrBox(el)
        n == Len(points)
    IN << MxPoint(Attr("sourcePoint"), Num(points[1].x), Num(points[1].y)),
          MxPoint(Attr("targetPoint"), Num(points[n].x), Num(points[n].y)) >>
       \o (IF n > 2
           THEN << MxArray(Attr("points"),
                           SeqOf(n - 2, LAMBDA i :
                               [x |-> Num(points[i + 1].x),
                                y |-> Num(points[i + 1].y)])) >>
           ELSE << >>)

BlankGeometry == [x |-> NoNum, y |-> NoNum, width |-> NoNum, height |-> NoNum,
                  relative |-> NoAttr, as |-> NoAttr, kids |-> << >>]

NewCell(el) ==
    IF el.type = "vertex"
    THEN MxCell(Attr(el.id), Attr(el.value), StyleAttrIf(el.style, NoStyleAttr),
                Attr("1"), NoAttr, NoAttr, NoAttr, Attr("1"),
                << MxGeometry(Num(el.x), Num(el.y), Num(el.width),
                              Num(el.height), NoAttr, << >>) >>)
    ELSE MxCell(Attr(el.id), NoAttr, StyleAttrIf(el.style, NoStyleAttr),
                NoAttr, Attr("1"), AttrIf(el.source, NoAttr),
                AttrIf(el.target, NoAttr), Attr("1"),
                << MxGeometry(NoNum, NoNum, NoNum, NoNum, Attr("1"),
                              EdgeGeometryKids(el)) >>)

(* UpdateCell with the rewritten geometry appended as a further child       *)
(* instead of written over the one the cell has                             *)
UpdateCellAppending(cell, el) ==
    LET geometry == IF cell.geoms # << >> THEN cell.geoms[1] ELSE BlankGeometry
        written == IF el.type = "vertex"
                   THEN [geometry EXCEPT !.x = Num(el.x), !.y = Num(el.y),
                                         !.width = Num(el.width),
                                         !.height = Num(el.height),
                                         !.as = Attr("geometry")]
                   ELSE [geometry EXCEPT !.relative = Attr("1"),
                                         !.as = Attr("geometry"),
                                         !.kids = EdgeGeometryKids(el)]
    IN [cell EXCEPT !.geoms = Append(@, written)]

UpdateCell(cell, el) ==
    LET geometry == IF cell.geoms # << >> THEN cell.geoms[1] ELSE BlankGeometry
        putBack(g) == IF cell.geoms # << >> THEN [cell.geoms EXCEPT ![1] = g]
                      ELSE << g >>
    IN IF el.type = "vertex"
       THEN [cell EXCEPT
               !.geoms = putBack([geometry EXCEPT
                                    !.x = Num(el.x), !.y = Num(el.y),
                                    !.width = Num(el.width),
                                    !.height = Num(el.height),
                                    !.as = Attr("geometry")]),
               !.value = Attr(el.value),
               !.style = StyleAttrIf(el.style, @)]
       ELSE [cell EXCEPT
               !.geoms = putBack([geometry EXCEPT
                                    !.relative = Attr("1"),
                                    !.as = Attr("geometry"),
                                    !.kids = EdgeGeometryKids(el)]),
               !.style = StyleAttrIf(el.style, @),
               !.source = AttrIf(el.source, @),
               !.target = AttrIf(el.target, @)]

RECURSIVE WriteElements(_, _)
WriteElements(cells, els) ==
    IF els = << >> THEN cells
    ELSE LET el == Head(els)
             at == FirstWhere(cells, LAMBDA c : c.id = Attr(el.id))
         IN WriteElements(IF at = 0 THEN Append(cells, NewCell(el))
                          ELSE [cells EXCEPT ![at] = UpdateCell(@, el)],
                          Tail(els))

(* elementsToXml(els), a closure over the xml prop `base` *)
elementsToXml(els, base) ==
    IF base.kind = "empty" THEN base
    ELSE LET keepIds == {"0", "1"} \cup {els[i].id : i \in 1..Len(els)}
             kept == SeqFilter(base.cells,
                               LAMBDA c : AttrOr(c.id, "") = ""
                                          \/ AttrOr(c.id, "") \in keepIds)
         IN XmlDoc(WriteElements(kept, els))

---------------------------------------------------------------------------
(* Inputs of the model *)

VertexCell(id, x, y, w, h, value) ==
    MxCell(Attr(id), Attr(value), Attr(<< StyleSeg("rounded", "0"), TrailingSemi >>),
           Attr("1"), NoAttr, NoAttr, NoAttr, Attr("1"),
           << MxGeometry(Num(x), Num(y), Num(w), Num(h), NoAttr, << >>) >>)

(* an edge cell with absolute source and target points and `way` waypoints *)
EdgeCell(id, source, target, sp, tp, way) ==
    MxCell(Attr(id), NoAttr, Attr(<< StyleSeg("endArrow", "classic"), TrailingSemi >>),
           NoAttr, Attr("1"), source, target, Attr("1"),
           << MxGeometry(NoNum, NoNum, NoNum, NoNum, Attr("1"),
                 << MxPoint(Attr("sourcePoint"), Num(sp.x), Num(sp.y)),
                    MxPoint(Attr("targetPoint"), Num(tp.x), Num(tp.y)) >>
                 \o (IF way = << >> THEN << >>
                     ELSE << MxArray(Attr("points"),
                                SeqMap(way, LAMBDA p :
                                    [x |-> Num(p.x), y |-> Num(p.y)])) >>)) >>)

(* two blocks *)
DocBlocks ==
    XmlDoc(<< RootCell("0"), RootCell("1"),
              VertexCell("2", 40, 40, 120, 60, "A"),
              VertexCell("3", 300, 40, 120, 60, "B") >>)

(* two blocks joined by an edge that has two waypoints *)
DocGraph ==
    XmlDoc(<< RootCell("0"), RootCell("1"),
              VertexCell("2", 40, 40, 120, 60, "A"),
              VertexCell("3", 300, 40, 120, 60, "B"),
              EdgeCell("4", Attr("2"), Attr("3"), Pt(100, 70), Pt(360, 70),
                       << Pt(180, 140), Pt(280, 140) >>) >>)

(* two blocks and a third one smaller than the minimum size *)
DocSmall ==
    XmlDoc(<< RootCell("0"), RootCell("1"),
              VertexCell("2", 40, 40, 120, 60, "A"),
              VertexCell("3", 300, 40, 120, 60, "B"),
              VertexCell("5", 200, 160, 10, 10, "dot") >>)

BaseDocs == {DocBlocks, DocGraph, DocSmall}

Positions == {Pt(100, 72), Pt(140, 112)}
DownPositions == {Pt(100, 72)}
RotateAngles == {0, 90, 180, 270}
ResizeHandles == {"nw", "n", "ne", "e", "se", "s", "sw", "w"}
EditorHandles == {"nw", "se"}
FillColors == {"#ef4444"}
StrokeColors == {"#3b82f6"}
Texts == {"Renamed"}
Tools == {"select", "add-block", "add-arrow"}

FreshIds == << "new_1", "new_2", "new_3", "new_4", "new_5", "new_6",
               "new_7", "new_8", "new_9" >>
FreshId == FreshIds[idCounter]

NoXml == [kind |-> "none", cells |-> << >>]
(* no message is waiting for its timer *)
NoRequest == [kind |-> "none"]
NoPoints == << >>

---------------------------------------------------------------------------
(* State after mounting: the xml effect has run *)

(* the last event: its handler, whether it pushed a snapshot and called     *)
(* onXmlUpdate, how many redo-able snapshots there were when it arrived,    *)
(* and the last handler that was not a pointer-move (the press that began   *)
(* the gesture in progress, while one is in progress)                       *)
Op(name, commit, emit, redoable, press) ==
    [op |-> name, commit |-> commit, emit |-> emit, redoable |-> redoable,
     press |-> press]

(* the scene and the interaction state after the xml effect has run *)
(* the state in which document doc is loaded and the scene els is shown *)
LoadedScene(doc, els, budget) ==
    /\ xml = doc
    /\ elements = els
    /\ selectedElement = Null
    /\ isDragging = FALSE /\ isResizing = FALSE /\ isRotating = FALSE
    /\ dragOffset = Pt(0, 0) /\ dragStart = Pt(0, 0)
    /\ resizeHandle = ""
    /\ isEditingText = FALSE /\ editText = ""
    /\ rotationCenter = Pt(0, 0)
    /\ clipboard = NoElement
    /\ currentTool = "select" /\ arrowSource = Null
    /\ dragMode = "element" /\ dragPointIndex = NoIndex
    /\ initialEdgePoints = NoPoints /\ initialRotatePoints = NoPoints
    /\ emitted = NoXml
    /\ lastOp = Op("mount", FALSE, FALSE, 0, "mount")
    /\ buttonDown = FALSE
    /\ idCounter = 1 + Cardinality({i \in DOMAIN FreshIds :
                                       \E j \in 1..Len(els) : els[j].id = FreshIds[i]})
    /\ deleteSeen = FALSE
    /\ usedIds = {}
    /\ pendingChat = NoRequest
    /\ stepsLeft = budget

Loaded(doc, budget) == LoadedScene(doc, parseXmlToElements(doc), budget)

Mounted(doc, budget) ==
    /\ Loaded(doc, budget)
    /\ history = << parseXmlToElements(doc) >>
    /\ historyIndex = 0

Init == Mounted(DocGraph, MaxSteps) /\ editor = "full"

---------------------------------------------------------------------------
(* Helpers shared by the handlers *)

Ids(els) == {els[i].id : i \in 1..Len(els)}
(* the id attributes of the cells of a document *)
DocIds(doc) == {doc.cells[i].id.v : i \in {j \in 1..Len(doc.cells) : doc.cells[j].id.has}}
Has(els, id) == id \in Ids(els)
Get(els, id) == els[FindIndex(els, id)]

(* the events that run deleteSelected or the Delete branch of handleKeyDown *)
DeleteOps == {"deleteSelected", "DeleteKey", "cutSelected"}

(* one event is delivered to `name` *)
Delivered(name, commit, emit) ==
    /\ stepsLeft > 0
    /\ stepsLeft' = stepsLeft - 1
    /\ lastOp' = Op(name, commit, emit, Len(history) - 1 - historyIndex,
                    IF name \in {"handleMouseMove", "handleResizeMove",
                                 "handleRotateMove"}
                    THEN lastOp.press ELSE name)
    /\ deleteSeen' = (deleteSeen \/ name \in DeleteOps)
    /\ usedIds' = usedIds \cup Ids(elements) \cup DocIds(xml)
    /\ UNCHANGED editor

(* an event of the editor or of the host: the chat's timer is left alone *)
Event(name, commit, emit) ==
    /\ Delivered(name, commit, emit)
    /\ UNCHANGED pendingChat

(* the push without the slice: the redo-able snapshots are kept *)
PushedKeepingRedo(snapshot) == Append(history, snapshot)

(* history.slice(0, historyIndex + 1) followed by push(snapshot) *)
Pushed(snapshot) == Append(SubSeq(history, 1, historyIndex + 1), snapshot)

(* a commit that sets the index to the new length instead of length - 1 *)
CommitPastEnd(snapshot) ==
    /\ history' = Pushed(snapshot)
    /\ historyIndex' = Len(Pushed(snapshot))

Commit(snapshot) ==
    /\ history' = Pushed(snapshot)
    /\ historyIndex' = Len(Pushed(snapshot)) - 1

(* updateXml(snapshot): onXmlUpdate(elementsToXml(snapshot)) *)
updateXml(snapshot) == emitted' = elementsToXml(snapshot, xml)

(* elements.map(el => el.id === id ? F(el) : el) *)
MapSelected(els, id, F(_)) ==
    SeqMap(els, LAMBDA el : IF el.id = id THEN F(el) ELSE el)

pruneDanglingEdges(els) ==
    LET vertexIds == {els[i].id : i \in {j \in 1..Len(els) : els[j].type = "vertex"}}
    IN SeqFilter(els, LAMBDA e : e.type = "vertex"
                          \/ (e.source \in vertexIds /\ e.target \in vertexIds))

gestureVars == << isDragging, isResizing, isRotating, dragOffset, dragStart,
                  resizeHandle, rotationCenter, dragMode, dragPointIndex,
                  initialEdgePoints, initialRotatePoints, buttonDown >>
textVars == << isEditingText, editText >>
historyVars == << history, historyIndex >>

---------------------------------------------------------------------------
(* History *)

(* the toolbar needs a free pointer, the keyboard shortcuts a closed editor *)
ByButtonOrKey == ~buttonDown \/ ~isEditingText
ByButton == ~buttonDown
ByKey == ~isEditingText

(* what undo() and redo() set, on the scene, history and index they read *)
(* undo that steps the index but shows the entry it is leaving *)
undoResultOffByOne(els, hist, index) ==
    IF index > 0
    THEN [elements |-> hist[index + 1], historyIndex |-> index - 1]
    ELSE [elements |-> els, historyIndex |-> index]

undoResult(els, hist, index) ==
    IF index > 0
    THEN [elements |-> hist[index], historyIndex |-> index - 1]
    ELSE [elements |-> els, historyIndex |-> index]

redoResult(els, hist, index) ==
    IF index < Len(hist) - 1
    THEN [elements |-> hist[index + 2], historyIndex |-> index + 1]
    ELSE [elements |-> els, historyIndex |-> index]

undo ==
    /\ ByButtonOrKey
    /\ Event("undo", FALSE, historyIndex > 0)
    /\ elements' = undoResult(elements, history, historyIndex).elements
    /\ historyIndex' = undoResult(elements, history, historyIndex).historyIndex
    /\ IF historyIndex > 0
       THEN updateXml(elements)
       ELSE UNCHANGED emitted
    /\ UNCHANGED << xml, selectedElement, gestureVars, textVars, clipboard,
                    history, currentTool, arrowSource, idCounter >>

redo ==
    /\ ByButtonOrKey
    /\ Event("redo", FALSE, historyIndex < Len(history) - 1)
    /\ elements' = redoResult(elements, history, historyIndex).elements
    /\ historyIndex' = redoResult(elements, history, historyIndex).historyIndex
    /\ IF historyIndex < Len(history) - 1
       THEN updateXml(elements)
       ELSE UNCHANGED emitted
    /\ UNCHANGED << xml, selectedElement, gestureVars, textVars, clipboard,
                    history, currentTool, arrowSource, idCounter >>

---------------------------------------------------------------------------
(* Keyboard: handleKeyDown *)

KeyEscape ==
    /\ ByKey
    /\ Event("Escape", FALSE, FALSE)
    /\ currentTool' = "select"
    /\ arrowSource' = Null
    /\ selectedElement' = Null
    /\ UNCHANGED << xml, elements, gestureVars, textVars, clipboard,
                    historyVars, emitted, idCounter >>

(* the V, B and A keys and the three tool buttons *)
SetTool(tool) ==
    /\ ByButtonOrKey
    /\ tool # currentTool
    /\ Event("setCurrentTool", FALSE, FALSE)
    /\ currentTool' = tool
    /\ UNCHANGED << xml, elements, selectedElement, gestureVars, textVars,
                    clipboard, historyVars, arrowSource, emitted, idCounter >>

KeyDelete ==
    /\ ByKey
    /\ selectedElement # Null
    /\ Event("DeleteKey", TRUE, TRUE)
    /\ LET filtered == SeqFilter(elements, LAMBDA el : el.id # selectedElement)
           cleaned == pruneDanglingEdges(filtered)
       IN /\ elements' = cleaned
          /\ updateXml(cleaned)
          /\ Commit(cleaned)
    /\ selectedElement' = Null
    /\ UNCHANGED << xml, gestureVars, textVars, clipboard, currentTool,
                    arrowSource, idCounter >>

---------------------------------------------------------------------------
(* Adding elements *)

addBlockAt(pos) ==
    LET newBlock == Vertex(FreshId, pos.x - 60, pos.y - 30, 120, 60,
                           "New Block", getShapeStyle)
        updated == Append(elements, newBlock)
    IN /\ elements' = updated
       /\ selectedElement' = newBlock.id
       /\ updateXml(updated)
       /\ Commit(updated)
       /\ idCounter' = idCounter + 1

CenterX(el) == IF NaN \in {el.x, el.width} THEN NaN ELSE el.x + Half(el.width)
CenterY(el) == IF NaN \in {el.y, el.height} THEN NaN ELSE el.y + Half(el.height)
WholeCenter(el) ==
    /\ NaN \in {el.x, el.width} \/ Whole(el.width)
    /\ NaN \in {el.y, el.height} \/ Whole(el.height)

(* an arrow laid between the top-left corners instead of the centres *)
NewArrowFromCorners(sourceId, targetId) ==
    LET sc == Pt(Get(elements, sourceId).x, Get(elements, sourceId).y)
        tc == Pt(Get(elements, targetId).x, Get(elements, targetId).y)
    IN Edge(FreshId, Min2(sc.x, tc.x), Min2(sc.y, tc.y),
            Abs(sc.x - tc.x), Abs(sc.y - tc.y), "", getArrowStyle,
            sourceId, targetId, << sc, tc >>)

(* the new arrow of addArrow(sourceId, targetId); both ids are in the scene *)
NewArrow(sourceId, targetId) ==
    LET sourceElement == Get(elements, sourceId)
        targetElement == Get(elements, targetId)
        sc == Pt(CenterX(sourceElement), CenterY(sourceElement))
        tc == Pt(CenterX(targetElement), CenterY(targetElement))
    IN Edge(FreshId, Min2(sc.x, tc.x), Min2(sc.y, tc.y),
            Abs(sc.x - tc.x), Abs(sc.y - tc.y), "", getArrowStyle,
            sourceId, targetId, << sc, tc >>)

(* addArrow returns early unless both ids are found in the scene *)
addArrowAccepts(sourceId, targetId) ==
    Has(elements, sourceId) /\ Has(elements, targetId)

handleElementClick(elementId) ==
    /\ ByButton
    /\ Has(elements, elementId)
    /\ LET adds == /\ currentTool = "add-arrow"
                   /\ arrowSource # Null /\ arrowSource # elementId
                   /\ addArrowAccepts(arrowSource, elementId)
       IN /\ adds => /\ WholeCenter(Get(elements, arrowSource))
                      /\ WholeCenter(Get(elements, elementId))
          /\ Event("handleElementClick", adds, adds)
          /\ IF adds
             THEN LET updated == Append(elements, NewArrow(arrowSource, elementId))
                  IN /\ elements' = updated
                     /\ updateXml(updated)
                     /\ Commit(updated)
                     /\ idCounter' = idCounter + 1
             ELSE UNCHANGED << elements, emitted, historyVars, idCounter >>
    /\ IF currentTool = "add-arrow"
       THEN IF arrowSource = Null
            THEN arrowSource' = elementId /\ selectedElement' = elementId
            ELSE IF arrowSource = elementId
                 THEN arrowSource' = Null /\ selectedElement' = Null
                 ELSE arrowSource' = Null /\ selectedElement' = elementId
       ELSE selectedElement' = elementId /\ arrowSource' = Null
    /\ UNCHANGED << xml, gestureVars, textVars, clipboard, currentTool >>

handleCanvasClick(pos) ==
    /\ ByButton
    /\ Event("handleCanvasClick", currentTool = "add-block",
             currentTool = "add-block")
    /\ IF currentTool = "add-block"
       THEN /\ addBlockAt(pos)
            /\ UNCHANGED << textVars, arrowSource >>
       ELSE /\ selectedElement' = Null
            /\ isEditingText' = FALSE
            /\ arrowSource' = Null
            /\ UNCHANGED << elements, emitted, historyVars, idCounter, editText >>
    /\ UNCHANGED << xml, gestureVars, clipboard, currentTool >>

(* handleCanvasDrop of a shape dragged from the sidebar *)
DropShape(pos) ==
    /\ ByButton
    /\ Event("handleCanvasDrop:shape", TRUE, TRUE)
    /\ addBlockAt(pos)
    /\ UNCHANGED << xml, gestureVars, textVars, clipboard, currentTool,
                    arrowSource >>

(* handleCanvasDrop of an arrow: addArrowFromDrop(x, y, x + 100, y + 50) *)
DropArrow(pos) ==
    /\ ByButton
    /\ Event("handleCanvasDrop:arrow", TRUE, TRUE)
    /\ LET x1 == pos.x
           y1 == pos.y
           x2 == pos.x + 100
           y2 == pos.y + 50
           newArrow == Edge(FreshId, Min2(x1, x2), Min2(y1, y2), Abs(x2 - x1),
                            Abs(y2 - y1), "", getArrowStyle, "", "",
                            << Pt(x1, y1), Pt(x2, y2) >>)
           updated == Append(elements, newArrow)
       IN /\ elements' = updated
          /\ selectedElement' = newArrow.id
          /\ updateXml(updated)
          /\ Commit(updated)
          /\ idCounter' = idCounter + 1
    /\ currentTool' = "add-arrow"
    /\ UNCHANGED << xml, gestureVars, textVars, clipboard, arrowSource >>

---------------------------------------------------------------------------
(* Toolbar edit actions *)

startEditText ==
    /\ ByButton
    /\ selectedElement # Null
    /\ Event("startEditText", FALSE, FALSE)
    /\ IF Has(elements, selectedElement)
       THEN /\ editText' = Get(elements, selectedElement).value
            /\ isEditingText' = TRUE
       ELSE UNCHANGED textVars
    /\ UNCHANGED << xml, elements, selectedElement, gestureVars, clipboard,
                    historyVars, currentTool, arrowSource, emitted, idCounter >>

(* typing in the rename box *)
setEditText(text) ==
    /\ isEditingText /\ selectedElement # Null
    /\ Event("setEditText", FALSE, FALSE)
    /\ editText' = text
    /\ UNCHANGED << xml, elements, selectedElement, gestureVars, isEditingText,
                    clipboard, historyVars, currentTool, arrowSource, emitted,
                    idCounter >>

saveTextEdit ==
    /\ isEditingText /\ selectedElement # Null
    /\ Event("saveTextEdit", TRUE, TRUE)
    /\ LET updated == MapSelected(elements, selectedElement,
                                  LAMBDA el : [el EXCEPT !.value = editText])
       IN /\ elements' = updated
          /\ updateXml(updated)
          /\ Commit(updated)
    /\ isEditingText' = FALSE
    /\ UNCHANGED << xml, selectedElement, gestureVars, editText, clipboard,
                    currentTool, arrowSource, idCounter >>

cancelTextEdit ==
    /\ isEditingText /\ selectedElement # Null
    /\ Event("cancelTextEdit", FALSE, FALSE)
    /\ isEditingText' = FALSE
    /\ UNCHANGED << xml, elements, selectedElement, gestureVars, editText,
                    clipboard, historyVars, currentTool, arrowSource, emitted,
                    idCounter >>

(* the statements of deleteSelected, on the closure's scene *)
deleteEffect ==
    LET filtered == SeqFilter(elements, LAMBDA el : el.id # selectedElement)
        cleaned == pruneDanglingEdges(filtered)
    IN /\ elements' = cleaned
       /\ selectedElement' = Null
       /\ updateXml(cleaned)
       /\ Commit(cleaned)

deleteSelected ==
    /\ ByButton
    /\ selectedElement # Null
    /\ Event("deleteSelected", TRUE, TRUE)
    /\ deleteEffect
    /\ UNCHANGED << xml, gestureVars, textVars, clipboard, currentTool,
                    arrowSource, idCounter >>

rotateSelected ==
    /\ ByButton
    /\ selectedElement # Null
    /\ Event("rotateSelected", TRUE, TRUE)
    /\ LET turn(el) ==
               [el EXCEPT !.rotation =
                   ((IF el.rotation \in {NoRotation, NaN} THEN 0
                     ELSE el.rotation) + 90) % 360]
           updated == MapSelected(elements, selectedElement, turn)
       IN /\ elements' = updated
          /\ updateXml(updated)
          /\ Commit(updated)
    /\ UNCHANGED << xml, selectedElement, gestureVars, textVars, clipboard,
                    currentTool, arrowSource, idCounter >>

copySelected ==
    /\ ByButton
    /\ selectedElement # Null
    /\ Event("copySelected", FALSE, FALSE)
    /\ IF Has(elements, selectedElement)
       THEN clipboard' = Get(elements, selectedElement)
       ELSE UNCHANGED clipboard
    /\ UNCHANGED << xml, elements, selectedElement, gestureVars, textVars,
                    historyVars, currentTool, arrowSource, emitted, idCounter >>

cutSelected ==
    /\ ByButton
    /\ selectedElement # Null
    /\ Event("cutSelected", TRUE, TRUE)
    /\ IF Has(elements, selectedElement)
       THEN clipboard' = Get(elements, selectedElement)
       ELSE UNCHANGED clipboard
    /\ deleteEffect
    /\ UNCHANGED << xml, gestureVars, textVars, currentTool, arrowSource,
                    idCounter >>

pasteElement ==
    /\ ByButton
    /\ clipboard # NoElement
    /\ Event("pasteElement", TRUE, TRUE)
    /\ LET newElement == [clipboard EXCEPT !.id = FreshId,
                                           !.x = clipboard.x + 20,
                                           !.y = clipboard.y + 20]
           updated == Append(elements, newElement)
       IN /\ elements' = updated
          /\ selectedElement' = newElement.id
          /\ updateXml(updated)
          /\ Commit(updated)
          /\ idCounter' = idCounter + 1
    /\ UNCHANGED << xml, gestureVars, textVars, clipboard, currentTool,
                    arrowSource >>

(* saveToHistory reads `elements` of the render it was created in *)
saveToHistory == Commit(elements)

changeStyleColor(name, key, color) ==
    /\ ByButton
    /\ selectedElement # Null
    /\ Event(name, TRUE, TRUE)
    /\ LET restyle(el) ==
               [el EXCEPT !.style =
                   stringifyStyle(StyleSet(parseStyle(el.style), key, color))]
           updated == MapSelected(elements, selectedElement, restyle)
       IN /\ elements' = updated
          /\ updateXml(updated)
          /\ saveToHistory
    /\ UNCHANGED << xml, selectedElement, gestureVars, textVars, clipboard,
                    currentTool, arrowSource, idCounter >>

changeFillColor(color) == changeStyleColor("changeFillColor", "fillColor", color)
changeStrokeColor(color) == changeStyleColor("changeStrokeColor", "strokeColor", color)

---------------------------------------------------------------------------
(* Pointer gestures: drag *)

(* startDrag(elementId, event, options), reading the closure's scene *)
startDrag(elementId, pos, mode, pointIndex) ==
    LET element == Get(elements, elementId)
    IN /\ isDragging' = TRUE
       /\ selectedElement' = elementId
       /\ dragStart' = pos
       /\ IF element.type = "edge"
          THEN /\ initialEdgePoints' = PointsOrBox(element)
               /\ dragMode' = mode
               /\ dragPointIndex' = IF mode = "edge-point" THEN pointIndex
                                    ELSE dragPointIndex
               /\ dragOffset' = Pt(0, 0)
          ELSE /\ dragMode' = "element"
               /\ dragOffset' = Pt(element.x, element.y)
               /\ UNCHANGED << initialEdgePoints, dragPointIndex >>
       /\ buttonDown' = TRUE
       /\ UNCHANGED << isResizing, isRotating, resizeHandle, rotationCenter,
                       initialRotatePoints >>

(* mouse down on a block, or on the path of an edge *)
MouseDownElement(elementId, pos) ==
    /\ ByButton /\ ~isEditingText
    /\ Has(elements, elementId)
    /\ Event("startDrag", FALSE, FALSE)
    /\ startDrag(elementId, pos, "edge-whole", NoIndex)
    /\ UNCHANGED << xml, elements, textVars, clipboard, historyVars,
                    currentTool, arrowSource, emitted, idCounter >>

SelectedEdge ==
    /\ selectedElement # Null
    /\ Has(elements, selectedElement)
    /\ Get(elements, selectedElement).type = "edge"

(* mouse down on the control point `index` (from 0) of the selected edge *)
MouseDownEdgePoint(index, pos) ==
    /\ ByButton /\ ~isEditingText
    /\ SelectedEdge
    /\ index < Len(PointsOrBox(Get(elements, selectedElement)))
    /\ Event("startDrag:point", FALSE, FALSE)
    /\ startDrag(selectedElement, pos, "edge-point", index)
    /\ UNCHANGED << xml, elements, textVars, clipboard, historyVars,
                    currentTool, arrowSource, emitted, idCounter >>

(* mouse down on the midpoint handle of segment `index` (from 0) *)
MouseDownMidpoint(index) ==
    /\ ByButton
    /\ SelectedEdge
    /\ LET points == PointsOrBox(Get(elements, selectedElement))
           point == points[index + 1]
           nextPoint == points[index + 2]
           mid == Pt(Half(point.x + nextPoint.x), Half(point.y + nextPoint.y))
           insert(elm) ==
               LET base == PointsOrBox(elm)
                   at == Min2(index + 1, Len(base))
               IN [elm EXCEPT !.points = SubSeq(base, 1, at) \o << mid >>
                                          \o SubSeq(base, at + 1, Len(base))]
       IN /\ index + 2 <= Len(points)
          /\ Whole(point.x + nextPoint.x) /\ Whole(point.y + nextPoint.y)
          /\ Event("insertWaypoint", FALSE, FALSE)
          /\ elements' = MapSelected(elements, selectedElement, insert)
          /\ IF isEditingText
             THEN UNCHANGED << selectedElement, gestureVars >>
             ELSE startDrag(selectedElement, mid, "edge-point", index + 1)
    /\ UNCHANGED << xml, textVars, clipboard, historyVars, currentTool,
                    arrowSource, emitted, idCounter >>

MovedBy(pts, dx, dy) == SeqMap(pts, LAMBDA p : Pt(p.x + dx, p.y + dy))

WithPoints(el, pts) ==
    [el EXCEPT !.points = pts, !.x = BoundsOf(pts).x, !.y = BoundsOf(pts).y,
               !.width = BoundsOf(pts).width, !.height = BoundsOf(pts).height]

(* the element handleMouseMove maps the selected element to *)
DragMoved(el, deltaX, deltaY) ==
    IF el.type = "edge"
    THEN IF dragMode = "edge-whole"
         THEN WithPoints(el, MovedBy(initialEdgePoints, deltaX, deltaY))
         ELSE IF dragMode = "edge-point" /\ dragPointIndex # NoIndex
              THEN WithPoints(el,
                     SeqOf(Len(initialEdgePoints), LAMBDA i :
                        IF i - 1 = dragPointIndex
                        THEN Pt(initialEdgePoints[i].x + deltaX,
                                initialEdgePoints[i].y + deltaY)
                        ELSE initialEdgePoints[i]))
              ELSE el
    ELSE [el EXCEPT !.x = dragOffset.x + deltaX, !.y = dragOffset.y + deltaY]

handleMouseMove(pos) ==
    /\ isDragging
    /\ Event("handleMouseMove", FALSE, FALSE)
    /\ IF selectedElement = Null
       THEN UNCHANGED elements
       ELSE elements' = MapSelected(elements, selectedElement,
                LAMBDA el : DragMoved(el, pos.x - dragStart.x, pos.y - dragStart.y))
    /\ UNCHANGED << xml, selectedElement, gestureVars, textVars, clipboard,
                    historyVars, currentTool, arrowSource, emitted, idCounter >>

handleMouseUp ==
    /\ buttonDown /\ isDragging
    /\ Event("handleMouseUp", TRUE, TRUE)
    /\ isDragging' = FALSE
    /\ dragMode' = "element"
    /\ dragPointIndex' = NoIndex
    /\ initialEdgePoints' = NoPoints
    /\ updateXml(elements)
    /\ Commit(elements)
    /\ buttonDown' = FALSE
    /\ UNCHANGED << xml, elements, selectedElement, isResizing, isRotating,
                    dragOffset, dragStart, resizeHandle, rotationCenter,
                    initialRotatePoints, textVars, clipboard, currentTool,
                    arrowSource, idCounter >>

---------------------------------------------------------------------------
(* Pointer gestures: resize *)

SelectedShown == selectedElement # Null /\ Has(elements, selectedElement)

startResize(handle) ==
    /\ ByButton
    /\ SelectedShown
    /\ Event("startResize", FALSE, FALSE)
    /\ isResizing' = TRUE
    /\ resizeHandle' = handle
    /\ buttonDown' = TRUE
    /\ UNCHANGED << xml, elements, selectedElement, isDragging, isRotating,
                    dragOffset, dragStart, rotationCenter, dragMode,
                    dragPointIndex, initialEdgePoints, initialRotatePoints,
                    textVars, clipboard, historyVars, currentTool, arrowSource,
                    emitted, idCounter >>

(* the switch on resizeHandle: the new box before clamping *)
ResizedBox(element, handle, mouseX, mouseY) ==
    LET right == element.x + element.width
        bottom == element.y + element.height
        west == handle \in {"nw", "sw", "w"}
        east == handle \in {"ne", "e", "se"}
        north == handle \in {"nw", "n", "ne"}
        south == handle \in {"se", "s", "sw"}
    IN [x |-> IF west THEN mouseX ELSE element.x,
        y |-> IF north THEN mouseY ELSE element.y,
        width |-> IF west THEN right - mouseX
                  ELSE IF east THEN mouseX - element.x ELSE element.width,
        height |-> IF north THEN bottom - mouseY
                   ELSE IF south THEN mouseY - element.y ELSE element.height]

MinSize == 20

(* newCenter + (p - center) * (newSize / oldSize), with center = (lo + hi) / 2 *)
(* and newCenter = newLo + newSize / 2, as a fraction over 2 * oldSize         *)
ScaledNumerator(p, lo, hi, newLo, newSize) ==
    (2 * newLo + newSize) * (hi - lo) + (2 * p - (lo + hi)) * newSize
ScaledExact(p, lo, hi, newLo, newSize) ==
    hi = lo \/ ScaledNumerator(p, lo, hi, newLo, newSize) % (2 * (hi - lo)) = 0
(* with hi = lo the scale is newSize / 0 and every offset from the centre  *)
(* is 0: the product, and the coordinate, is NaN                            *)
Scaled(p, lo, hi, newLo, newSize) ==
    IF hi = lo THEN NaN
    ELSE ScaledNumerator(p, lo, hi, newLo, newSize) \div (2 * (hi - lo))

(* the early return taken only when the points span neither a width nor a *)
(* height                                                                   *)
EdgeResizeSkipsPoint(element) ==
    LET points == PointsOrBox(element)
    IN /\ MaxOf(points, "x") - MinOf(points, "x") = 0
       /\ MaxOf(points, "y") - MinOf(points, "y") = 0

(* oldWidth === 0 || oldHeight === 0, over the points of the edge *)
EdgeResizeSkips(element) ==
    LET points == PointsOrBox(element)
    IN \/ MaxOf(points, "x") - MinOf(points, "x") = 0
       \/ MaxOf(points, "y") - MinOf(points, "y") = 0

(* every scaled coordinate is a whole number *)
EdgeResizeExact(element, handle, mouseX, mouseY) ==
    LET points == PointsOrBox(element)
        box == ResizedBox(element, handle, mouseX, mouseY)
    IN \A i \in 1..Len(points) :
          /\ ScaledExact(points[i].x, MinOf(points, "x"), MaxOf(points, "x"),
                         box.x, Max2(MinSize, box.width))
          /\ ScaledExact(points[i].y, MinOf(points, "y"), MaxOf(points, "y"),
                         box.y, Max2(MinSize, box.height))

(* the edge handleResizeMove maps the selected edge `el` to, computed from *)
(* `element`, the selected element found in the closure's scene           *)
EdgeResized(el, element, handle, mouseX, mouseY) ==
    LET points == PointsOrBox(element)
        minX == MinOf(points, "x")
        minY == MinOf(points, "y")
        maxX == MaxOf(points, "x")
        maxY == MaxOf(points, "y")
        box == ResizedBox(element, handle, mouseX, mouseY)
        newWidth == Max2(MinSize, box.width)
        newHeight == Max2(MinSize, box.height)
    IN [el EXCEPT
          !.points = SeqMap(points, LAMBDA p :
                        Pt(Scaled(p.x, minX, maxX, box.x, newWidth),
                           Scaled(p.y, minY, maxY, box.y, newHeight))),
          !.x = box.x, !.y = box.y, !.width = newWidth, !.height = newHeight]

VertexResized(el, element, handle, mouseX, mouseY) ==
    LET box == ResizedBox(element, handle, mouseX, mouseY)
    IN [el EXCEPT !.x = box.x, !.y = box.y,
                  !.width = Max2(MinSize, box.width),
                  !.height = Max2(MinSize, box.height)]

handleResizeMove(pos) ==
    /\ ~isDragging /\ isResizing
    /\ Event("handleResizeMove", FALSE, FALSE)
    /\ IF ~SelectedShown
       THEN UNCHANGED elements
       ELSE LET element == Get(elements, selectedElement)
            IN IF element.type = "vertex"
               THEN elements' = MapSelected(elements, selectedElement,
                       LAMBDA el : VertexResized(el, element, resizeHandle, pos.x, pos.y))
               ELSE IF EdgeResizeSkips(element)
                    THEN UNCHANGED elements
                    ELSE /\ EdgeResizeExact(element, resizeHandle, pos.x, pos.y)
                         /\ elements' = MapSelected(elements, selectedElement,
                               LAMBDA el : EdgeResized(el, element, resizeHandle, pos.x, pos.y))
    /\ UNCHANGED << xml, selectedElement, gestureVars, textVars, clipboard,
                    historyVars, currentTool, arrowSource, emitted, idCounter >>

handleResizeUp ==
    /\ buttonDown /\ ~isDragging /\ isResizing
    /\ Event("handleResizeUp", TRUE, TRUE)
    /\ isResizing' = FALSE
    /\ resizeHandle' = ""
    /\ updateXml(elements)
    /\ Commit(elements)
    /\ buttonDown' = FALSE
    /\ UNCHANGED << xml, elements, selectedElement, isDragging, isRotating,
                    dragOffset, dragStart, rotationCenter, dragMode,
                    dragPointIndex, initialEdgePoints, initialRotatePoints,
                    textVars, clipboard, currentTool, arrowSource, idCounter >>

---------------------------------------------------------------------------
(* Pointer gestures: rotate *)

startRotate ==
    /\ ByButton
    /\ SelectedShown
    /\ Event("startRotate", FALSE, FALSE)
    /\ LET element == Get(elements, selectedElement)
           usePoints == element.type = "edge" /\ Len(element.points) > 0
       IN /\ IF usePoints
             THEN /\ Whole(MinOf(element.points, "x") + MaxOf(element.points, "x"))
                  /\ Whole(MinOf(element.points, "y") + MaxOf(element.points, "y"))
             ELSE WholeCenter(element)
          /\ rotationCenter' =
                IF usePoints
                THEN Pt(Half(MinOf(element.points, "x") + MaxOf(element.points, "x")),
                        Half(MinOf(element.points, "y") + MaxOf(element.points, "y")))
                ELSE Pt(CenterX(element), CenterY(element))
          /\ initialRotatePoints' =
                IF element.type = "edge" THEN PointsOrBox(element) ELSE NoPoints
    /\ isRotating' = TRUE
    /\ buttonDown' = TRUE
    /\ UNCHANGED << xml, elements, selectedElement, isDragging, isResizing,
                    dragOffset, dragStart, resizeHandle, dragMode,
                    dragPointIndex, initialEdgePoints, textVars, clipboard,
                    historyVars, currentTool, arrowSource, emitted, idCounter >>

(* cos and sin of a multiple of 90 degrees *)
Cos(angle) == CASE angle = 0 -> 1 [] angle = 90 -> 0
                [] angle = 180 -> 0 - 1 [] angle = 270 -> 0
Sin(angle) == CASE angle = 0 -> 0 [] angle = 90 -> 1
                [] angle = 180 -> 0 [] angle = 270 -> 0 - 1

(* a map that mixes the sine into both terms of y: not a rotation *)
RotatedAboutSkewed(pts, c, angle) ==
    SeqMap(pts, LAMBDA p :
        Pt(c.x + (p.x - c.x) * Cos(angle) - (p.y - c.y) * Sin(angle),
           c.y + (p.x - c.x) * Sin(angle) + (p.y - c.y) * Sin(angle)))

RotatedAbout(pts, c, angle) ==
    SeqMap(pts, LAMBDA p :
        Pt(c.x + (p.x - c.x) * Cos(angle) - (p.y - c.y) * Sin(angle),
           c.y + (p.x - c.x) * Sin(angle) + (p.y - c.y) * Cos(angle)))

(* the pointer is at the angle `angle` (atan2, normalised to [0, 360)) as  *)
(* seen from rotationCenter                                                *)
handleRotateMove(angle) ==
    /\ ~isDragging /\ ~isResizing /\ isRotating
    /\ Event("handleRotateMove", FALSE, FALSE)
    /\ IF ~SelectedShown
       THEN UNCHANGED elements
       ELSE LET element == Get(elements, selectedElement)
                pts == IF initialRotatePoints # NoPoints THEN initialRotatePoints
                       ELSE element.points
                \* Math.atan2 about a pivot with a NaN coordinate is NaN
                normalizedAngle == IF NaN \in {rotationCenter.x, rotationCenter.y}
                                   THEN NaN ELSE angle
            IN IF element.type = "edge"
               THEN elements' = MapSelected(elements, selectedElement,
                       LAMBDA el : WithPoints(el,
                          IF normalizedAngle = NaN
                          THEN SeqMap(pts, LAMBDA p : Pt(NaN, NaN))
                          ELSE RotatedAbout(pts, rotationCenter, normalizedAngle)))
               ELSE elements' = MapSelected(elements, selectedElement,
                       LAMBDA el : [el EXCEPT !.rotation = normalizedAngle])
    /\ UNCHANGED << xml, selectedElement, gestureVars, textVars, clipboard,
                    historyVars, currentTool, arrowSource, emitted, idCounter >>

handleRotateUp ==
    /\ buttonDown /\ ~isDragging /\ ~isResizing /\ isRotating
    /\ Event("handleRotateUp", selectedElement # Null, selectedElement # Null)
    /\ IF selectedElement = Null
       THEN UNCHANGED << isRotating, initialRotatePoints, emitted, historyVars >>
       ELSE /\ isRotating' = FALSE
            /\ initialRotatePoints' = NoPoints
            /\ updateXml(elements)
            /\ Commit(elements)
    /\ buttonDown' = FALSE
    /\ UNCHANGED << xml, elements, selectedElement, isDragging, isResizing,
                    dragOffset, dragStart, resizeHandle, rotationCenter,
                    dragMode, dragPointIndex, initialEdgePoints, textVars,
                    clipboard, currentTool, arrowSource, idCounter >>

---------------------------------------------------------------------------
(* The editor *)

Next ==
    \/ undo
    \/ redo
    \/ KeyEscape
    \/ KeyDelete
    \/ \E tool \in Tools : SetTool(tool)
    \/ \E id \in Ids(elements) : handleElementClick(id)
    \/ \E pos \in Positions : handleCanvasClick(pos)
    \/ \E pos \in Positions : DropShape(pos)
    \/ \E pos \in Positions : DropArrow(pos)
    \/ startEditText
    \/ \E text \in Texts : setEditText(text)
    \/ saveTextEdit
    \/ cancelTextEdit
    \/ deleteSelected
    \/ rotateSelected
    \/ copySelected
    \/ cutSelected
    \/ pasteElement
    \/ \E color \in FillColors : changeFillColor(color)
    \/ \E color \in StrokeColors : changeStrokeColor(color)
    \/ \E id \in Ids(elements), pos \in DownPositions : MouseDownElement(id, pos)
    \/ \E index \in 0..MaxPointIndex, pos \in DownPositions : MouseDownEdgePoint(index, pos)
    \/ \E index \in 0..MaxPointIndex : MouseDownMidpoint(index)
    \/ \E pos \in Positions : handleMouseMove(pos)
    \/ handleMouseUp
    \/ \E handle \in EditorHandles : startResize(handle)
    \/ \E pos \in Positions : handleResizeMove(pos)
    \/ handleResizeUp
    \/ startRotate
    \/ \E angle \in RotateAngles : handleRotateMove(angle)
    \/ handleRotateUp

Spec == Init /\ [][Next]_vars

---------------------------------------------------------------------------
(* Properties of the editor *)

Idle == ~isDragging /\ ~isResizing /\ ~isRotating
VertexIds(els) == {els[i].id : i \in {j \in 1..Len(els) : els[j].type = "vertex"}}
PointerMoves == {"handleMouseMove", "handleResizeMove", "handleRotateMove"}
PointerUps == {"handleMouseUp", "handleResizeUp", "handleRotateUp"}
DeleteEvents == {"deleteSelected", "DeleteKey"}

(* C1: round-trip fidelity. Decoding the document that elementsToXml writes *)
(* for the live scene over the base document gives back the live scene:     *)
(* the same ids in the same order and, for each element, the same type,     *)
(* box, value, style, source, target, points and rotation.                  *)
C1_RoundTrip == parseXmlToElements(elementsToXml(elements, xml)) = elements

(* C2: dangling-edge freedom. Once a delete has been performed, every edge  *)
(* of the live scene has a source that is empty or the id of a vertex of    *)
(* the scene, and a target that is empty or the id of a vertex of the scene.*)
C2_NoDanglingEdges ==
    deleteSeen =>
        \A i \in 1..Len(elements) :
            elements[i].type = "edge" =>
                /\ elements[i].source \in VertexIds(elements) \cup {""}
                /\ elements[i].target \in VertexIds(elements) \cup {""}

(* C3: undo then redo restores the scene. In a state with historyIndex > 0  *)
(* and no gesture in progress, undo() followed by redo() leaves the live    *)
(* scene and historyIndex as they were before the undo.                     *)
C3_UndoRedoRestores ==
    (historyIndex > 0 /\ Idle) =>
        LET undone == undoResult(elements, history, historyIndex)
            redone == redoResult(undone.elements, history, undone.historyIndex)
        IN /\ redone.elements = elements
           /\ redone.historyIndex = historyIndex

(* C4: history truncation. A commit made at historyIndex = c < length - 1   *)
(* leaves history[0..c] as it was, followed by exactly one new snapshot,    *)
(* sets historyIndex to c + 1 = length - 1, and a redo() issued next        *)
(* changes neither the scene, the history nor historyIndex.                 *)
C4_Truncation ==
    [][(lastOp'.commit /\ historyIndex < Len(history) - 1) =>
          /\ Len(history') = historyIndex + 2
          /\ SubSeq(history', 1, historyIndex + 1) = SubSeq(history, 1, historyIndex + 1)
          /\ historyIndex' = historyIndex + 1
          /\ historyIndex' = Len(history') - 1
          /\ redoResult(elements', history', historyIndex')
                = [elements |-> elements', historyIndex |-> historyIndex']]_vars

(* a commit has just been made while redo-able snapshots existed *)
C4_Witness ==
    /\ lastOp.commit
    /\ lastOp.redoable > 0
    /\ historyIndex = Len(history) - 1

(* C5: every commit stores the post-edit scene. Whenever no gesture is in   *)
(* progress, history[historyIndex] is the live scene.                       *)
C5_HeadIsLiveScene == Idle => history[historyIndex + 1] = elements

(* C6: delete removes exactly the deleted element and the edges it leaves   *)
(* dangling. After deleteSelected or the Delete key on element d the scene  *)
(* is the previous scene without d and without every edge whose non-empty   *)
(* source or target is not a vertex that remains; every other element,      *)
(* edges with empty source and target included, is kept unchanged.          *)
C6_DeleteExact ==
    [][lastOp'.op \in DeleteEvents =>
          LET rest == SeqFilter(elements, LAMBDA el : el.id # selectedElement)
              dangling(e) == \/ e.source # "" /\ e.source \notin VertexIds(rest)
                             \/ e.target # "" /\ e.target \notin VertexIds(rest)
          IN elements' = SeqFilter(rest, LAMBDA e : e.type = "vertex" \/ ~dangling(e))]_vars

(* C7: one commit per gesture. A pointer-move changes neither history nor   *)
(* historyIndex and does not call onXmlUpdate; the pointer-up that ends the *)
(* gesture appends exactly one history entry, equal to the scene shown by   *)
(* the last pointer-move.                                                   *)
C7_OneCommitPerGesture ==
    [][/\ lastOp'.op \in PointerMoves => UNCHANGED << history, historyIndex, emitted >>
       /\ lastOp'.op \in PointerUps =>
             /\ history' = Append(SubSeq(history, 1, historyIndex + 1), elements)
             /\ historyIndex' = Len(history') - 1]_vars

(* C8: pointer-up always returns to Idle. The pointer-up delivered to the   *)
(* handler of a drag, resize or rotate clears that gesture's flag, whatever *)
(* was delivered between pointer-down and pointer-up.                       *)
C8_PointerUpClearsFlag ==
    [][/\ lastOp'.op = "handleMouseUp" => ~isDragging'
       /\ lastOp'.op = "handleResizeUp" => ~isResizing'
       /\ lastOp'.op = "handleRotateUp" => ~isRotating']_vars

(* C9: Escape cancels without committing. Escape pressed during a drag,     *)
(* resize or rotate makes the live scene equal to history[historyIndex],    *)
(* and neither that Escape nor the pointer-up that follows it appends a     *)
(* history entry or calls onXmlUpdate.                                      *)
C9_EscapeDiscardsPreview ==
    [][/\ (lastOp'.op = "Escape" /\ ~Idle) =>
             /\ elements' = history'[historyIndex' + 1]
             /\ UNCHANGED << history, historyIndex, emitted >>
       /\ (lastOp.op = "Escape" /\ lastOp'.op \in PointerUps) =>
             UNCHANGED << history, historyIndex, emitted >>]_vars

(* C10: addArrow rejects invalid endpoints. A click that completes an edge  *)
(* with the add-arrow tool, from the pending source to the clicked element, *)
(* leaves the scene, history, historyIndex and the emitted XML unchanged    *)
(* unless both ids are ids of vertices of the scene.                        *)
C10_AddArrowNeedsVertices ==
    [][(/\ lastOp'.op = "handleElementClick"
        /\ currentTool = "add-arrow"
        /\ arrowSource # Null
        /\ ~(/\ arrowSource \in VertexIds(elements)
             /\ selectedElement' \in VertexIds(elements))) =>
          UNCHANGED << elements, history, historyIndex, emitted >>]_vars

(* C11: addArrow result. For two vertices s and t of the scene, the click   *)
(* that completes the arrow appends exactly one edge with source s, target  *)
(* t, points [centre(s), centre(t)] and the bounding box of those two       *)
(* points, and leaves every existing element unchanged; for the vertices    *)
(* (40,40,120,60) and (300,40,120,60) the points are [(100,70),(360,70)].   *)
C11_AddArrowResult ==
    [][(/\ lastOp'.op = "handleElementClick" /\ lastOp'.commit
        /\ arrowSource \in VertexIds(elements)
        /\ selectedElement' \in VertexIds(elements)) =>
          LET s == Get(elements, arrowSource)
              t == Get(elements, selectedElement')
              new == elements'[Len(elements')]
          IN /\ Len(elements') = Len(elements) + 1
             /\ SubSeq(elements', 1, Len(elements)) = elements
             /\ new.type = "edge"
             /\ new.source = s.id /\ new.target = t.id
             /\ Len(new.points) = 2
             /\ 2 * new.points[1].x = 2 * s.x + s.width
             /\ 2 * new.points[1].y = 2 * s.y + s.height
             /\ 2 * new.points[2].x = 2 * t.x + t.width
             /\ 2 * new.points[2].y = 2 * t.y + t.height
             /\ new.x = Min2(new.points[1].x, new.points[2].x)
             /\ new.y = Min2(new.points[1].y, new.points[2].y)
             /\ new.width = Abs(new.points[1].x - new.points[2].x)
             /\ new.height = Abs(new.points[1].y - new.points[2].y)
             /\ ((s.x = 40 /\ s.y = 40 /\ s.width = 120 /\ s.height = 60
                  /\ t.x = 300 /\ t.y = 40 /\ t.width = 120 /\ t.height = 60)
                 => new.points = << Pt(100, 70), Pt(360, 70) >>)]_vars

(* the arrow from vertex 2 at (40,40,120,60) to vertex 3 at (300,40,120,60) *)
(* has just been added                                                      *)
C11_Witness ==
    /\ lastOp.op = "handleElementClick" /\ lastOp.commit
    /\ elements[Len(elements)].source = "2"
    /\ elements[Len(elements)].target = "3"
    /\ elements[Len(elements)].points = << Pt(100, 70), Pt(360, 70) >>
    /\ \E i \in 1..Len(elements) :
          elements[i] = Vertex("2", 40, 40, 120, 60, "A", elements[i].style)

---------------------------------------------------------------------------
(* The resize gesture in the three editors: the full editor, the basic     *)
(* InteractiveDiagramEditor and the CanvasEditor                            *)

Editors == {"full", "basic", "canvas"}
CornerHandles == {"nw", "ne", "se", "sw"}
ResizePositions == {Pt(20, 20), Pt(40, 40), Pt(100, 60), Pt(160, 100),
                    Pt(200, 160), Pt(400, 200)}

(* the basic editor's elementsToXml: no cell of the base is removed *)
basicElementsToXml(els, base) ==
    IF base.kind = "empty" THEN base
    ELSE XmlDoc(WriteElements(base.cells, els))

(* the CanvasEditor's elementsToXml: the geometry of existing cells only *)
canvasElementsToXml(els, base) ==
    IF base.kind = "empty" THEN base
    ELSE XmlDoc(SeqMap(base.cells, LAMBDA cell :
            IF cell.id.has /\ Has(els, cell.id.v) /\ cell.geoms # << >>
            THEN LET el == Get(els, cell.id.v)
                 IN [cell EXCEPT !.geoms[1].x = Num(el.x),
                                 !.geoms[1].y = Num(el.y),
                                 !.geoms[1].width = Num(el.width),
                                 !.geoms[1].height = Num(el.height)]
            ELSE cell))

(* the corner box without the clamp to the minimum size *)
CornerResizedUnclamped(el, element, handle, mouseX, mouseY) ==
    [el EXCEPT !.x = IF handle \in {"nw", "sw"} THEN mouseX ELSE element.x,
               !.y = IF handle \in {"nw", "ne"} THEN mouseY ELSE element.y,
               !.width = IF handle \in {"nw", "sw"}
                         THEN element.x + element.width - mouseX
                         ELSE mouseX - element.x,
               !.height = IF handle \in {"nw", "ne"}
                          THEN element.y + element.height - mouseY
                          ELSE mouseY - element.y]

(* the box both editors compute from the four corner handles, then clamp *)
CornerResized(el, element, handle, mouseX, mouseY) ==
    LET right == element.x + element.width
        bottom == element.y + element.height
        newX == IF handle \in {"nw", "sw"} THEN mouseX ELSE element.x
        newY == IF handle \in {"nw", "ne"} THEN mouseY ELSE element.y
        newWidth == IF handle \in {"nw", "sw"} THEN right - mouseX
                    ELSE IF handle \in {"ne", "se"} THEN mouseX - element.x
                    ELSE element.width
        newHeight == IF handle \in {"nw", "ne"} THEN bottom - mouseY
                     ELSE IF handle \in {"se", "sw"} THEN mouseY - element.y
                     ELSE element.height
    IN [el EXCEPT !.x = newX, !.y = newY,
                  !.width = Max2(MinSize, newWidth),
                  !.height = Max2(MinSize, newHeight)]

(* basic editor: handleElementClick with the select tool *)
basicElementClick(elementId) ==
    /\ editor = "basic" /\ ByButton
    /\ currentTool = "select"
    /\ Has(elements, elementId)
    /\ Event("basic:handleElementClick", FALSE, FALSE)
    /\ selectedElement' = elementId
    /\ arrowSource' = Null
    /\ UNCHANGED << xml, elements, gestureVars, textVars, clipboard,
                    historyVars, currentTool, emitted, idCounter >>

(* basic editor: a corner handle of the selected vertex is pressed *)
basicStartResize(handle) ==
    /\ editor = "basic" /\ ByButton
    /\ SelectedShown /\ Get(elements, selectedElement).type = "vertex"
    /\ Event("basic:startResize", FALSE, FALSE)
    /\ isResizing' = TRUE
    /\ resizeHandle' = handle
    /\ buttonDown' = TRUE
    /\ UNCHANGED << xml, elements, selectedElement, isDragging, isRotating,
                    dragOffset, dragStart, rotationCenter, dragMode,
                    dragPointIndex, initialEdgePoints, initialRotatePoints,
                    textVars, clipboard, historyVars, currentTool, arrowSource,
                    emitted, idCounter >>

basicResizeMove(pos) ==
    /\ editor = "basic"
    /\ ~isDragging /\ isResizing
    /\ Event("basic:handleResizeMove", FALSE, FALSE)
    /\ IF ~SelectedShown
       THEN UNCHANGED elements
       ELSE LET element == Get(elements, selectedElement)
            IN elements' = MapSelected(elements, selectedElement,
                  LAMBDA el : CornerResized(el, element, resizeHandle, pos.x, pos.y))
    /\ UNCHANGED << xml, selectedElement, gestureVars, textVars, clipboard,
                    historyVars, currentTool, arrowSource, emitted, idCounter >>

(* basic editor: handleResizeUp calls updateXml() and saveToHistory() *)
basicResizeUp ==
    /\ editor = "basic"
    /\ buttonDown /\ ~isDragging /\ isResizing
    /\ Event("basic:handleResizeUp", TRUE, TRUE)
    /\ isResizing' = FALSE
    /\ resizeHandle' = ""
    /\ emitted' = basicElementsToXml(elements, xml)
    /\ Commit(elements)
    /\ buttonDown' = FALSE
    /\ UNCHANGED << xml, elements, selectedElement, isDragging, isRotating,
                    dragOffset, dragStart, rotationCenter, dragMode,
                    dragPointIndex, initialEdgePoints, initialRotatePoints,
                    textVars, clipboard, currentTool, arrowSource, idCounter >>

HandleSize == 8

(* getResizeHandle(x, y, element): the first corner whose square holds the point *)
getResizeHandle(pos, element) ==
    LET hit(hx, hy) == /\ pos.x >= hx - Half(HandleSize)
                       /\ pos.x <= hx - Half(HandleSize) + HandleSize
                       /\ pos.y >= hy - Half(HandleSize)
                       /\ pos.y <= hy - Half(HandleSize) + HandleSize
    IN IF hit(element.x, element.y) THEN "nw"
       ELSE IF hit(element.x + element.width, element.y) THEN "ne"
       ELSE IF hit(element.x + element.width, element.y + element.height) THEN "se"
       ELSE IF hit(element.x, element.y + element.height) THEN "sw"
       ELSE ""

isPointInElement(pos, element) ==
    /\ pos.x >= element.x /\ pos.x <= element.x + element.width
    /\ pos.y >= element.y /\ pos.y <= element.y + element.height

(* CanvasEditor: startDrawing with the select tool, Ctrl and Space released; *)
(* selectedElement stands for the one-element set selectedElements          *)
canvasStartDrawing(pos) ==
    /\ editor = "canvas" /\ ByButton
    /\ Event("canvas:startDrawing", FALSE, FALSE)
    /\ LET onHandle == /\ SelectedShown
                       /\ getResizeHandle(pos, Get(elements, selectedElement)) # ""
           at == FirstWhere(elements, LAMBDA el : isPointInElement(pos, el))
       IN IF onHandle
          THEN /\ isResizing' = TRUE
               /\ resizeHandle' = getResizeHandle(pos, Get(elements, selectedElement))
               /\ UNCHANGED << selectedElement, isDragging, dragOffset >>
          ELSE IF at # 0
               THEN /\ selectedElement' = elements[at].id
                    /\ isDragging' = TRUE
                    /\ dragOffset' = Pt(pos.x - elements[at].x, pos.y - elements[at].y)
                    /\ UNCHANGED << isResizing, resizeHandle >>
               ELSE /\ selectedElement' = Null
                    /\ UNCHANGED << isDragging, dragOffset, isResizing, resizeHandle >>
    /\ buttonDown' = TRUE
    /\ UNCHANGED << xml, elements, isRotating, dragStart, rotationCenter,
                    dragMode, dragPointIndex, initialEdgePoints,
                    initialRotatePoints, textVars, clipboard, historyVars,
                    currentTool, arrowSource, emitted, idCounter >>

(* CanvasEditor: draw, the pointer-move handler *)
canvasDraw(pos) ==
    /\ editor = "canvas"
    /\ isDragging \/ isResizing
    /\ Event("canvas:draw", FALSE, FALSE)
    /\ IF isDragging /\ selectedElement # Null
       THEN elements' = MapSelected(elements, selectedElement,
               LAMBDA el : [el EXCEPT !.x = pos.x - dragOffset.x,
                                      !.y = pos.y - dragOffset.y])
       ELSE IF isResizing /\ SelectedShown
            THEN LET element == Get(elements, selectedElement)
                 IN elements' = MapSelected(elements, selectedElement,
                       LAMBDA el : CornerResized(el, element, resizeHandle, pos.x, pos.y))
            ELSE UNCHANGED elements
    /\ UNCHANGED << xml, selectedElement, gestureVars, textVars, clipboard,
                    historyVars, currentTool, arrowSource, emitted, idCounter >>

(* CanvasEditor: stopDrawing, the pointer-up handler *)
canvasStopDrawing ==
    /\ editor = "canvas"
    /\ buttonDown
    /\ Event("canvas:stopDrawing", FALSE, isDragging \/ isResizing)
    /\ IF isDragging
       THEN /\ isDragging' = FALSE
            /\ emitted' = canvasElementsToXml(elements, xml)
            /\ UNCHANGED << isResizing, resizeHandle >>
       ELSE IF isResizing
            THEN /\ isResizing' = FALSE
                 /\ resizeHandle' = ""
                 /\ emitted' = canvasElementsToXml(elements, xml)
                 /\ UNCHANGED isDragging
            ELSE UNCHANGED << isDragging, isResizing, resizeHandle, emitted >>
    /\ buttonDown' = FALSE
    /\ UNCHANGED << xml, elements, selectedElement, isRotating, dragOffset,
                    dragStart, rotationCenter, dragMode, dragPointIndex,
                    initialEdgePoints, initialRotatePoints, textVars,
                    clipboard, historyVars, currentTool, arrowSource, idCounter >>

(* two blocks and an edge without waypoints from (100,60) to (200,100) *)
DocSlanted ==
    XmlDoc(<< RootCell("0"), RootCell("1"),
              VertexCell("2", 40, 40, 120, 60, "A"),
              VertexCell("3", 300, 40, 120, 60, "B"),
              EdgeCell("4", Attr("2"), Attr("3"), Pt(100, 60), Pt(200, 100),
                       << >>) >>)

(* after mounting: the CanvasEditor keeps no history until an edit *)
InitResize ==
    \E doc \in {DocGraph, DocSmall, DocSlanted} :
    \/ Mounted(doc, MaxResizeSteps) /\ editor \in {"full", "basic"}
    \/ /\ Loaded(doc, MaxResizeSteps)
       /\ history = << >> /\ historyIndex = NoIndex
       /\ editor = "canvas"

NextResize ==
    \/ editor = "full" /\ \E id \in Ids(elements) : handleElementClick(id)
    \/ editor = "full" /\ \E handle \in ResizeHandles : startResize(handle)
    \/ editor = "full" /\ \E pos \in ResizePositions : handleResizeMove(pos)
    \/ editor = "full" /\ handleResizeUp
    \/ \E id \in Ids(elements) : basicElementClick(id)
    \/ \E handle \in CornerHandles : basicStartResize(handle)
    \/ \E pos \in ResizePositions : basicResizeMove(pos)
    \/ basicResizeUp
    \/ \E pos \in ResizePositions : canvasStartDrawing(pos)
    \/ \E pos \in ResizePositions : canvasDraw(pos)
    \/ canvasStopDrawing

SpecResize == InitResize /\ [][NextResize]_vars

---------------------------------------------------------------------------
(* Properties of the resize gesture *)

ResizeMoves == {"handleResizeMove", "basic:handleResizeMove", "canvas:draw"}
SelectedVertex == SelectedShown /\ Get(elements, selectedElement).type = "vertex"

C13_ResizeFrame ==
    [][(lastOp'.op = "handleResizeMove" /\ SelectedVertex) =>
          LET old == Get(elements, selectedElement)
              new == Get(elements', selectedElement)
          IN /\ Len(elements') = Len(elements)
             /\ \A i \in 1..Len(elements) :
                   elements[i].id # selectedElement => elements'[i] = elements[i]
             /\ new = [old EXCEPT !.x = new.x, !.y = new.y,
                                  !.width = new.width, !.height = new.height]
             /\ resizeHandle \in {"se", "e", "s"} => new.x = old.x /\ new.y = old.y
             /\ resizeHandle \in {"e", "w"} => new.height = old.height
             /\ resizeHandle \in {"n", "s"} => new.width = old.width]_vars

---------------------------------------------------------------------------
(* Properties of paste, of what is emitted, and of the history *)

(* the box of a list of points: minima, and extents between minima and maxima *)
BoxIsOfPoints(el) ==
    /\ el.x = MinOf(el.points, "x")
    /\ el.y = MinOf(el.points, "y")
    /\ el.width = MaxOf(el.points, "x") - MinOf(el.points, "x")
    /\ el.height = MaxOf(el.points, "y") - MinOf(el.points, "y")

(* C14: paste. pasteElement appends exactly one element, equal to the       *)
(* clipboard except for a fresh id and a position shifted by (20, 20); the  *)
(* vertex (40,40,120,60) is pasted at (60,60,120,60); for an edge every     *)
(* point is shifted by (20, 20) as well and the box is that of the points.  *)
C14_PasteShifted ==
    [][(lastOp'.op = "pasteElement") =>
          LET new == elements'[Len(elements')]
          IN /\ Len(elements') = Len(elements) + 1
             /\ SubSeq(elements', 1, Len(elements)) = elements
             /\ new.id \notin Ids(elements) \cup {clipboard.id}
             /\ new.x = clipboard.x + 20 /\ new.y = clipboard.y + 20
             /\ new.width = clipboard.width /\ new.height = clipboard.height
             /\ [new EXCEPT !.id = clipboard.id, !.x = clipboard.x,
                            !.y = clipboard.y, !.points = clipboard.points]
                  = clipboard
             /\ clipboard.type = "vertex" => new.points = clipboard.points
             /\ clipboard.type = "edge" =>
                  /\ Len(new.points) = Len(clipboard.points)
                  /\ \A i \in 1..Len(new.points) :
                       new.points[i] = Pt(clipboard.points[i].x + 20,
                                          clipboard.points[i].y + 20)
                  /\ Len(new.points) >= 1 => BoxIsOfPoints(new)]_vars

(* C15: what is emitted. Every onXmlUpdate call, of a commit, an undo or a  *)
(* redo, passes elementsToXml of the scene that is live once the operation  *)
(* completes: undo emits history[historyIndex - 1], redo emits              *)
(* history[historyIndex + 1], not the scene shown before the call.          *)
C15_EmitsLiveScene ==
    [][lastOp'.emit => emitted' = elementsToXml(elements', xml)]_vars

(* C16: undo and redo at the ends. undo at historyIndex = 0 and redo at     *)
(* historyIndex = length - 1 change nothing: scene, history and index stay   *)
(* and onXmlUpdate is not called. Otherwise undo moves the index by -1 and   *)
(* redo by +1 and the live scene becomes the history entry at the new        *)
(* index. Neither changes the history sequence.                              *)
C16_UndoRedoBounds ==
    [][/\ lastOp'.op = "undo" =>
            /\ history' = history
            /\ IF historyIndex = 0
               THEN /\ elements' = elements /\ historyIndex' = historyIndex
                    /\ emitted' = emitted /\ ~lastOp'.emit
               ELSE /\ historyIndex' = historyIndex - 1
                    /\ elements' = history[historyIndex' + 1]
       /\ lastOp'.op = "redo" =>
            /\ history' = history
            /\ IF historyIndex = Len(history) - 1
               THEN /\ elements' = elements /\ historyIndex' = historyIndex
                    /\ emitted' = emitted /\ ~lastOp'.emit
               ELSE /\ historyIndex' = historyIndex + 1
                    /\ elements' = history[historyIndex' + 1]]_vars

(* an undo at index 0 that did nothing, after an earlier undo that did move *)
C16_Witness ==
    /\ lastOp.op = "undo" /\ ~lastOp.emit
    /\ historyIndex = 0 /\ Len(history) >= 2
    /\ elements = history[1] /\ elements # history[2]

(* C17: history bounds. Right after the document is loaded the history is   *)
(* the one parsed scene and historyIndex is 0; in every reachable state,    *)
(* also after the Delete key handler, the history is non-empty and          *)
(* 0 <= historyIndex <= length - 1.                                         *)
C17_HistoryBounds ==
    /\ Len(history) >= 1
    /\ historyIndex >= 0 /\ historyIndex <= Len(history) - 1
    /\ lastOp.op = "mount" =>
          history = << parseXmlToElements(xml) >> /\ historyIndex = 0

(* the Delete key has committed while redo-able snapshots existed *)
C17_Witness ==
    /\ lastOp.op = "DeleteKey" /\ lastOp.redoable > 0
    /\ Len(history) >= 2 /\ historyIndex = Len(history) - 1

---------------------------------------------------------------------------
(* elementsToXml as a function of a scene and a base document *)

MaxEncodeSteps == 1

(* two blocks and a third vertex whose mxCell carries no id attribute, as   *)
(* it does under a UserObject or object wrapper                             *)
DocWrapped ==
    XmlDoc(<< RootCell("0"), RootCell("1"),
              VertexCell("2", 40, 40, 120, 60, "A"),
              VertexCell("3", 300, 40, 120, 60, "B"),
              [VertexCell("", 200, 160, 120, 60, "C") EXCEPT !.id = NoAttr] >>)

EncodeDocs == {DocBlocks, DocGraph, DocSmall, DocWrapped}

(* the scenes left of a parsed document after deleting elements, and those  *)
(* with one block added                                                     *)
ScenesOf(doc) ==
    LET parsed == parseXmlToElements(doc)
        rest == {SeqFilter(parsed, LAMBDA el : el.id \in K) :
                    K \in SUBSET Ids(parsed)}
        block == Vertex(FreshIds[1], 40, 200, 120, 60, "New Block", getShapeStyle)
    IN rest \cup {Append(scene, block) : scene \in rest}

InitEncode ==
    \E doc \in EncodeDocs : \E scene \in ScenesOf(doc) :
      /\ LoadedScene(doc, scene, MaxEncodeSteps)
      /\ history = IF scene = parseXmlToElements(doc)
                   THEN << scene >>
                   ELSE << parseXmlToElements(doc), scene >>
      /\ historyIndex = Len(history) - 1
      /\ editor = "full"

(* updateXml(elements): the scene is encoded and handed to onXmlUpdate *)
emitScene ==
    /\ Event("updateXml", FALSE, TRUE)
    /\ updateXml(elements)
    /\ UNCHANGED << xml, elements, selectedElement, gestureVars, textVars,
                    clipboard, historyVars, currentTool, arrowSource,
                    idCounter >>

NextEncode == emitScene
SpecEncode == InitEncode /\ [][NextEncode]_vars

CellsWithId(doc, id) == {i \in 1..Len(doc.cells) : doc.cells[i].id = Attr(id)}

(* C18: the encoded cell set equals the scene. For every scene and every    *)
(* non-empty base document the output of elementsToXml has exactly one      *)
(* mxCell for each element id of the scene, keeps the cells "0" and "1",    *)
(* and has no other mxCell.                                                 *)
C18_CellsAreScene ==
    emitted # NoXml =>
        /\ \A id \in Ids(elements) : Cardinality(CellsWithId(emitted, id)) = 1
        /\ \A id \in {"0", "1"} :
              CellsWithId(xml, id) # {} => CellsWithId(emitted, id) # {}
        /\ \A i \in 1..Len(emitted.cells) :
              \E id \in Ids(elements) \cup {"0", "1"} :
                 emitted.cells[i].id = Attr(id)

(* C19: edge geometry. In every scene the full editor reaches, from the     *)
(* parsed document on and through every geometric edit, each edge has at    *)
(* least two points and its x, y, width, height are the min/max box of its  *)
(* points.                                                                  *)
C19_EdgeBoxOfPoints ==
    \A i \in 1..Len(elements) :
        elements[i].type = "edge" =>
            /\ Len(elements[i].points) >= 2
            /\ BoxIsOfPoints(elements[i])

---------------------------------------------------------------------------
(* ChatInterface: the requests that rewrite the document text *)

MaxChatSteps == 3
MaxNumericId == 9

(* the decimal texts of the ids the model counts with *)
Digits == << "0", "1", "2", "3", "4", "5", "6", "7", "8", "9", "10", "11" >>
IsNumericId(id) == \E n \in 0..MaxNumericId : Digits[n + 1] = id
IdNumber(id) == CHOOSE n \in 0..MaxNumericId : Digits[n + 1] = id

(* component names a request mentions *)
ChatNames == {"A", "B", "cpu"}
NewNames == {"cpu"}
Directions == {"beside", "left", "above", "below"}

toUpperCase(text) == CASE text = "cpu" -> "CPU" [] OTHER -> text
toLowerCase(text) ==
    CASE text = "A" -> "a" [] text = "B" -> "b" [] text = "CPU" -> "cpu"
      [] OTHER -> text
(* a.includes(b), for the lower-case texts "", "a", "b", "cpu" *)
Includes(a, b) == b = "" \/ a = b

(* String(Math.max(...ids matched by /id="(\d+)"/g) + 1); Math.max() of no *)
(* argument is -Infinity                                                   *)
maxId(doc) ==
    LET nums == {IdNumber(id) : id \in {i \in DocIds(doc) : IsNumericId(i)}}
    IN CHOOSE n \in nums : \A m \in nums : m <= n
HasNumericId(doc) == \E id \in DocIds(doc) : IsNumericId(id)
newIdText(doc) ==
    IF HasNumericId(doc) THEN Digits[maxId(doc) + 2] ELSE "-Infinity"
NewIdInRange(doc) == HasNumericId(doc) => maxId(doc) + 1 <= MaxNumericId

(* findComponentId: the id of the first cell that has an id and a value    *)
(* attribute and whose value matches the name; "" when there is none       *)
NameMatches(cell, name) ==
    /\ cell.id.has /\ cell.value.has
    /\ \/ Includes(toLowerCase(cell.value.v), toLowerCase(name))
       \/ Includes(toLowerCase(name), toLowerCase(cell.value.v))
findComponentId(doc, name) ==
    LET at == FirstWhere(doc.cells, LAMBDA c : NameMatches(c, name))
    IN IF at = 0 THEN "" ELSE doc.cells[at].id.v

ChatStyle ==
    << StyleSeg("rounded", "1"), StyleSeg("whiteSpace", "wrap"),
       StyleSeg("html", "1"), StyleSeg("fillColor", "#dae8fc"),
       StyleSeg("strokeColor", "#6c8ebf"), TrailingSemi >>
ConnectionStyle ==
    << StyleSeg("endArrow", "classic"), StyleSeg("html", "1"),
       StyleSeg("rounded", "0"), TrailingSemi >>

NumText(v) == IF v = NaN THEN JunkNum ELSE Num(v)
parseFloat(a) == IF a.k = "num" THEN a.v ELSE NaN
Plus(a, b) == IF a = NaN \/ b = NaN THEN NaN ELSE a + b

ComponentCell(id, name, x, y) ==
    MxCell(Attr(id), Attr(toUpperCase(name)), Attr(ChatStyle), Attr("1"),
           NoAttr, NoAttr, NoAttr, Attr("1"),
           << MxGeometry(NumText(x), NumText(y), Num(120), Num(60), NoAttr, << >>) >>)

ConnectionCell(id, sourceId, targetId) ==
    MxCell(Attr(id), NoAttr, Attr(ConnectionStyle), NoAttr, Attr("1"),
           Attr(sourceId), Attr(targetId), Attr("1"),
           << MxGeometry(NoNum, NoNum, Num(50), Num(50), Attr("1"),
                 << MxPoint(Attr("sourcePoint"), Num(0), Num(0)),
                    MxPoint(Attr("targetPoint"), Num(100), Num(100)) >>) >>)

(* xml.replace('</root>', cell + '</root>') *)
InsertedBeforeRootEnd(doc, cell) == XmlDoc(Append(doc.cells, cell))

(* the geometry the regular expressions read from the cell with this id:   *)
(* x, y, width and height must all be written                              *)
GeometryOf(doc, id) ==
    LET at == FirstWhere(doc.cells, LAMBDA c : c.id = Attr(id))
        g == doc.cells[at].geoms[1]
    IN IF at = 0 \/ doc.cells[at].geoms = << >> THEN [found |-> FALSE]
       ELSE IF \E f \in {"x", "y", "width", "height"} : g[f].k = "absent"
            THEN [found |-> FALSE]
            ELSE [found |-> TRUE, x |-> parseFloat(g.x), y |-> parseFloat(g.y),
                  width |-> parseFloat(g.width), height |-> parseFloat(g.height)]

(* between two references: the second reference's width is read from the   *)
(* height group and its height from a group that does not exist            *)
BetweenX4(g1, g2) == 2 * g1.x + g1.width + 2 * g2.x + g2.height
PositionBetween(doc, ref1, ref2) ==
    LET ref1Id == findComponentId(doc, ref1)
        ref2Id == findComponentId(doc, ref2)
        g1 == GeometryOf(doc, ref1Id)
        g2 == GeometryOf(doc, ref2Id)
    IN IF ref1Id # "" /\ ref2Id # "" /\ ref1Id # ref2Id /\ g1.found /\ g2.found
       THEN [x |-> IF NaN \in {g1.x, g1.width, g2.x, g2.height} THEN NaN
                   ELSE (BetweenX4(g1, g2) \div 4) - 60,
             y |-> NaN]
       ELSE [x |-> 400, y |-> 200]
BetweenIsWhole(doc, ref1, ref2) ==
    LET ref1Id == findComponentId(doc, ref1)
        ref2Id == findComponentId(doc, ref2)
        g1 == GeometryOf(doc, ref1Id)
        g2 == GeometryOf(doc, ref2Id)
    IN (ref1Id # "" /\ ref2Id # "" /\ ref1Id # ref2Id /\ g1.found /\ g2.found
        /\ NaN \notin {g1.x, g1.width, g2.x, g2.height})
          => BetweenX4(g1, g2) % 4 = 0

(* beside one reference; sameLine says whether the reference's mxCell tag   *)
(* and its mxGeometry sit on one line, which the pattern without the s flag *)
(* needs in order to match                                                  *)
PositionBeside(doc, ref, direction, sameLine) ==
    LET refId == findComponentId(doc, ref)
        g == GeometryOf(doc, refId)
    IN IF refId # "" /\ sameLine /\ g.found
       THEN CASE direction = "left" -> [x |-> Plus(g.x, 0 - 140), y |-> g.y]
              [] direction = "above" -> [x |-> g.x, y |-> Plus(g.y, 0 - 80)]
              [] direction = "below" ->
                    [x |-> g.x, y |-> Plus(Plus(g.y, g.height), 20)]
              [] OTHER -> [x |-> Plus(Plus(g.x, g.width), 20), y |-> g.y]
       ELSE [x |-> 400, y |-> 200]

(* onXmlUpdate(modifiedXml): the document is replaced and the editor loads  *)
(* it again                                                                 *)
ChatUpdate(name, doc) ==
    /\ Event(name, FALSE, TRUE)
    /\ xml' = doc
    /\ emitted' = xml'
    /\ elements' = parseXmlToElements(xml')
    /\ history' = << elements' >>
    /\ historyIndex' = 0
    /\ UNCHANGED << selectedElement, gestureVars, textVars, clipboard,
                    currentTool, arrowSource, idCounter >>

addComponent(componentName) ==
    /\ NewIdInRange(xml)
    /\ ChatUpdate("addComponent",
          InsertedBeforeRootEnd(xml,
              ComponentCell(newIdText(xml), componentName, 400, 200)))

addComponentBetween(componentName, ref1, ref2) ==
    /\ NewIdInRange(xml)
    /\ BetweenIsWhole(xml, ref1, ref2)
    /\ LET at == PositionBetween(xml, ref1, ref2)
       IN ChatUpdate("addComponentWithPosition",
             InsertedBeforeRootEnd(xml,
                 ComponentCell(newIdText(xml), componentName, at.x, at.y)))

addComponentBeside(componentName, ref, direction, sameLine) ==
    /\ NewIdInRange(xml)
    /\ LET at == PositionBeside(xml, ref, direction, sameLine)
       IN ChatUpdate("addComponentWithPosition",
             InsertedBeforeRootEnd(xml,
                 ComponentCell(newIdText(xml), componentName, at.x, at.y)))

addConnection(component1, component2) ==
    /\ NewIdInRange(xml)
    /\ findComponentId(xml, component1) # ""
    /\ findComponentId(xml, component2) # ""
    /\ ChatUpdate("addConnection",
          InsertedBeforeRootEnd(xml,
              ConnectionCell(newIdText(xml),
                             findComponentId(xml, component1),
                             findComponentId(xml, component2))))

(* removeComponent: every cell whose value contains the name goes, and so   *)
(* do the cells whose source or target is the id of the first of them       *)
ValueContains(cell, name) ==
    cell.value.has /\ Includes(toLowerCase(cell.value.v), toLowerCase(name))
removeComponent(componentName) ==
    LET first == FirstWhere(xml.cells,
                     LAMBDA c : c.id.has /\ ValueContains(c, componentName))
        componentId == xml.cells[first].id
        kept == SeqFilter(xml.cells,
                    LAMBDA c : /\ ~ValueContains(c, componentName)
                               /\ (first # 0 =>
                                     /\ c.source # componentId
                                     /\ c.target # componentId))
    IN /\ \E i \in 1..Len(xml.cells) : ValueContains(xml.cells[i], componentName)
       /\ ChatUpdate("removeComponent", XmlDoc(kept))

InitChat == Mounted(DocGraph, MaxChatSteps) /\ editor = "full"

NextChat ==
    \/ \E name \in NewNames : addComponent(name)
    \/ \E name \in NewNames : \E ref1, ref2 \in ChatNames :
          addComponentBetween(name, ref1, ref2)
    \/ \E name \in NewNames : \E ref \in ChatNames :
          \E direction \in Directions : \E sameLine \in BOOLEAN :
             addComponentBeside(name, ref, direction, sameLine)
    \/ \E c1, c2 \in ChatNames : addConnection(c1, c2)
    \/ \E name \in ChatNames : removeComponent(name)

SpecChat == InitChat /\ [][NextChat]_vars

(* C20: id freshness. Every element created during a session gets an id     *)
(* that differs from every id in the document, from every id an element     *)
(* carried earlier in the session, deleted ones included, and from "0" and  *)
(* "1"; the ids of a scene are pairwise distinct.                           *)
C20_FreshIds ==
    [][(Len(elements') > Len(elements) /\ lastOp'.op \notin {"undo", "redo"}) =>
          /\ \A id \in Ids(elements') \ Ids(elements) :
                id \notin usedIds \cup DocIds(xml) \cup {"0", "1"}
          /\ Cardinality(Ids(elements')) = Len(elements')]_vars

---------------------------------------------------------------------------
(* The rotate gesture and the rotate button on an edge with waypoints *)

MaxRotateSteps == 5

(* two blocks and an edge with three waypoints *)
DocRoute ==
    XmlDoc(<< RootCell("0"), RootCell("1"),
              VertexCell("2", 40, 40, 120, 60, "A"),
              VertexCell("3", 300, 40, 120, 60, "B"),
              EdgeCell("4", Attr("2"), Attr("3"), Pt(100, 70), Pt(360, 70),
                       << Pt(160, 100), Pt(200, 140), Pt(300, 100) >>) >>)

(* a block, and a block whose y is text that parseFloat cannot read *)
DocUnreadable ==
    XmlDoc(<< RootCell("0"), RootCell("1"),
              VertexCell("2", 40, 40, 120, 60, "A"),
              [VertexCell("3", 300, 0, 120, 60, "B") EXCEPT
                  !.geoms = << MxGeometry(Num(300), JunkNum, Num(120), Num(60),
                                          NoAttr, << >>) >>] >>)

InitRotate ==
    \E doc \in {DocRoute, DocUnreadable} :
        Mounted(doc, MaxRotateSteps) /\ editor = "full"

NextRotate ==
    \/ \E id \in Ids(elements) : handleElementClick(id)
    \/ startRotate
    \/ \E angle \in RotateAngles : handleRotateMove(angle)
    \/ handleRotateUp
    \/ rotateSelected

SpecRotate == InitRotate /\ [][NextRotate]_vars

SelectedEdgeShown == SelectedShown /\ Get(elements, selectedElement).type = "edge"
Dist2(p, q) == (p.x - q.x) * (p.x - q.x) + (p.y - q.y) * (p.y - q.y)

(* C21: edge rotation is isometric. At every pointer-move of a rotate       *)
(* gesture on an edge with three or more points, the distance between each  *)
(* pair of points equals the distance between the same pair before the      *)
(* gesture (angles are multiples of 90 degrees, so the check is exact).     *)
C21_RotationIsometric ==
    [][(/\ lastOp'.op = "handleRotateMove"
        /\ SelectedEdgeShown
        /\ Len(initialRotatePoints) >= 3) =>
          LET before == initialRotatePoints
              after == Get(elements', selectedElement).points
          IN /\ Len(after) = Len(before)
             /\ \A i, j \in 1..Len(before) :
                   Dist2(after[i], after[j]) = Dist2(before[i], before[j])]_vars

(* a rotate-move has turned a three-point edge away from where it started *)
C21_Witness ==
    /\ lastOp.op = "handleRotateMove" /\ isRotating
    /\ SelectedEdgeShown
    /\ Len(initialRotatePoints) >= 3
    /\ Get(elements, selectedElement).points # initialRotatePoints

---------------------------------------------------------------------------
(* The editor under its host: documents loaded and emitted ones fed back *)

MaxHostSteps == 4

(* the document DOMParser builds from text that is not well-formed: it      *)
(* holds a parsererror element and the cells the engine kept, which are the *)
(* ones read before the error or none                                       *)
MalformedXml(cells) == [kind |-> "malformed", cells |-> cells]

(* the text of two blocks cut off after the first block *)
DocTruncated ==
    MalformedXml(<< RootCell("0"), RootCell("1"),
                    VertexCell("2", 40, 40, 120, 60, "A") >>)
DocRejected == MalformedXml(<< >>)

HostDocs == {DocGraph, DocTruncated, DocRejected}

(* useEffect([xml]): the xml prop has changed *)
xmlChanged(doc) ==
    /\ xml' = doc
    /\ elements' = parseXmlToElements(xml')
    /\ history' = << elements' >>
    /\ historyIndex' = 0

(* the host hands the editor another document *)
loadXml(doc) ==
    /\ doc # xml
    /\ Event("loadXml", FALSE, FALSE)
    /\ xmlChanged(doc)
    /\ UNCHANGED << selectedElement, gestureVars, textVars, clipboard,
                    currentTool, arrowSource, emitted, idCounter >>

(* handleXmlUpdate: the emitted document comes back as the xml prop *)
EchoPending == lastOp.emit /\ emitted # xml
hostEcho ==
    /\ EchoPending
    /\ Event("hostEcho", FALSE, FALSE)
    /\ xmlChanged(emitted)
    /\ UNCHANGED << selectedElement, gestureVars, textVars, clipboard,
                    currentTool, arrowSource, emitted, idCounter >>

InitHost == \E doc \in HostDocs : Mounted(doc, MaxHostSteps) /\ editor = "full"

NextHost ==
    \/ hostEcho
    \/ ~EchoPending /\ \E doc \in HostDocs : loadXml(doc)
    \/ ~EchoPending /\ \E id \in Ids(elements) : handleElementClick(id)
    \/ ~EchoPending /\ \E pos \in DownPositions : DropShape(pos)
    \/ ~EchoPending /\ deleteSelected
    \/ ~EchoPending /\ KeyDelete
    \/ ~EchoPending /\ copySelected
    \/ ~EchoPending /\ pasteElement
    \/ ~EchoPending /\ undo
    \/ ~EchoPending /\ redo

SpecHost == InitHost /\ [][NextHost]_vars

(* C22: malformed input is contained. parseXmlToElements applied to         *)
(* malformed XML returns the empty sequence, so right after such a document *)
(* is loaded the live scene is empty, history = [[]] and historyIndex = 0.  *)
C22_MalformedIsEmpty ==
    (lastOp.op \in {"mount", "loadXml"} /\ xml.kind = "malformed") =>
        /\ parseXmlToElements(xml) = << >>
        /\ elements = << >>
        /\ history = << << >> >>
        /\ historyIndex = 0

---------------------------------------------------------------------------
(* Labels handed to the renderer as markup *)

MaxLabelSteps == 4

LabelTexts == {"Renamed", "a<b", "<b>bold</b>", "x>y"}

(* a text as the sequence of its pieces: each angle bracket is a piece of   *)
(* its own, a run of other characters is one piece                          *)
Chars(text) ==
    CASE text = "a<b" -> << "a", "<", "b" >>
      [] text = "<b>bold</b>" -> << "<", "b", ">", "bold", "<", "/b", ">" >>
      [] text = "x>y" -> << "x", ">", "y" >>
      [] text = "" -> << >>
      [] OTHER -> << text >>

(* text.replace(/c/g, replacement) on a sequence of pieces *)
RECURSIVE ReplaceAll(_, _, _)
ReplaceAll(pieces, c, replacement) ==
    IF pieces = << >> THEN << >>
    ELSE (IF Head(pieces) = c THEN replacement ELSE << Head(pieces) >>)
            \o ReplaceAll(Tail(pieces), c, replacement)

(* text.replace(/</g, '<').replace(/>/g, '>') *)
processText(text) ==
    ReplaceAll(ReplaceAll(Chars(text), "<", << "<" >>), ">", << ">" >>)

(* the __html of the label of an element *)
LabelMarkup(el) == processText(el.value)

InitLabel == Mounted(DocGraph, MaxLabelSteps) /\ editor = "full"

NextLabel ==
    \/ \E id \in Ids(elements) : handleElementClick(id)
    \/ startEditText
    \/ \E text \in LabelTexts : setEditText(text)
    \/ saveTextEdit
    \/ cancelTextEdit

SpecLabel == InitLabel /\ [][NextLabel]_vars

(* C23: label escaping. For every element value the markup handed to the    *)
(* renderer, processText(value) used as __html, holds no raw '<' or '>'.    *)
C23_LabelEscaped ==
    \A i \in 1..Len(elements) :
        \A k \in 1..Len(LabelMarkup(elements[i])) :
            LabelMarkup(elements[i])[k] \notin {"<", ">"}

---------------------------------------------------------------------------
(* Properties of the add-arrow clicks, the host echo and edge geometry *)

(* what the click handler does with the add-arrow tool active *)
ArrowClickProtocol ==
    IF arrowSource = Null
    THEN /\ arrowSource' # Null /\ arrowSource' = selectedElement'
         /\ UNCHANGED << elements, history, historyIndex >>
    ELSE IF selectedElement' = Null
    THEN /\ arrowSource' = Null
         /\ UNCHANGED << elements, history, historyIndex >>
    ELSE (arrowSource \in VertexIds(elements)
            /\ selectedElement' \in VertexIds(elements)) =>
         /\ arrowSource' = Null
         /\ Len(elements') = Len(elements) + 1
         /\ SubSeq(elements', 1, Len(elements)) = elements
         /\ elements'[Len(elements')].type = "edge"
         /\ elements'[Len(elements')].source = arrowSource
         /\ elements'[Len(elements')].target = selectedElement'
         /\ history' = Append(SubSeq(history, 1, historyIndex + 1), elements')
         /\ historyIndex' = historyIndex + 1

(* C24: add-edge click protocol. With the add-arrow tool active, the first  *)
(* click on a vertex sets arrowSource and changes neither scene nor         *)
(* history; a second click on the same vertex clears arrowSource and        *)
(* changes neither; a second click on a different vertex adds exactly one   *)
(* edge from the pending source to it, commits once and clears arrowSource. *)
(* A click is delivered as pointer-down, pointer-up and click: the press    *)
(* and release of a click change neither scene nor history either.          *)
C24_ArrowClicks ==
    [][currentTool = "add-arrow" =>
          /\ lastOp'.op = "handleElementClick" => ArrowClickProtocol
          /\ (lastOp'.op = "startDrag"
                \/ (lastOp.op = "startDrag" /\ lastOp'.op = "handleMouseUp")) =>
                UNCHANGED << elements, history, historyIndex >>]_vars

(* C25: the host echo preserves history. When the host feeds each emitted   *)
(* document back as the xml prop, a committed edit followed by that echo    *)
(* leaves the pre-edit snapshot in history with historyIndex > 0, so that   *)
(* undo after the edit restores the pre-edit scene.                         *)
C25_EchoKeepsHistory ==
    [][(lastOp.commit /\ lastOp'.op = "hostEcho") =>
          /\ historyIndex' > 0
          /\ \E k \in 1..Len(history') : history'[k] = history[historyIndex]
          /\ undoResult(elements', history', historyIndex').elements
                = history[historyIndex]]_vars

(* C26: waypoint insertion. When a gesture begun by pressing the midpoint    *)
(* handle of segment i of the selected edge ends, with or without           *)
(* pointer-moves in between, the edge has one point more than before the    *)
(* press, the points before and after index i+1 are the original points in  *)
(* their order, and without a pointer-move index i+1 holds the midpoint.    *)
C26_WaypointInserted ==
    [][(lastOp'.op = "handleMouseUp" /\ lastOp.press = "insertWaypoint") =>
          LET original == initialEdgePoints
              at == dragPointIndex
              points == Get(elements', selectedElement).points
          IN /\ Len(points) = Len(original) + 1
             /\ SubSeq(points, 1, at) = SubSeq(original, 1, at)
             /\ SubSeq(points, at + 2, Len(points))
                   = SubSeq(original, at + 1, Len(original))
             /\ lastOp.op = "insertWaypoint" => points[at + 1] = dragStart]_vars

(* C27: decoded edge points. For every edge cell of the loaded document     *)
(* that has an absolute source point and target point, the decoded edge     *)
(* has the points source point, waypoints in document order, target point   *)
(* (k + 2 points for k waypoints), and its box is the bounding box of all   *)
(* of those points.                                                         *)
C27_DecodedEdgePoints ==
    xml.kind = "doc" =>
        \A i \in 1..Len(xml.cells) :
            LET cell == xml.cells[i]
                kids == KidsOf(cell.geoms)
                source == SeqFilter(kids, LAMBDA n : n.tag = "mxPoint"
                                            /\ n.as = Attr("sourcePoint"))
                target == SeqFilter(kids, LAMBDA n : n.tag = "mxPoint"
                                            /\ n.as = Attr("targetPoint"))
                arrays == SeqFilter(kids, LAMBDA n : n.tag = "Array")
                waypoints == IF arrays = << >> THEN << >> ELSE arrays[1].pts
                expected == << Pt(source[1].x.v, source[1].y.v) >>
                            \o SeqMap(waypoints, LAMBDA p : Pt(p.x.v, p.y.v))
                            \o << Pt(target[1].x.v, target[1].y.v) >>
                decoded == parseEdgeCell(cell)
            IN (cell.edge = Attr("1") /\ source # << >> /\ target # << >>) =>
                  /\ decoded.points = expected
                  /\ Len(decoded.points) = Len(waypoints) + 2
                  /\ [x |-> decoded.x, y |-> decoded.y, width |-> decoded.width,
                      height |-> decoded.height] = BoundsOf(expected)

(* the pointer angle at which a rotate gesture on an edge starts: the       *)
(* rotate handle is drawn straight above the centre of the bounding box     *)
RotateHandleAngle == 270

(* C28: edge rotation uses the original points and the delta angle. After   *)
(* each pointer-move of a rotate gesture on an edge its points are the      *)
(* points it had before the gesture, rotated about the captured pivot by    *)
(* the pointer angle now minus the pointer angle at which the gesture       *)
(* started; a pointer-move at the start position leaves the points equal to *)
(* the points before the gesture.                                           *)
C28_RotationByDelta ==
    [][\A angle \in RotateAngles :
          (handleRotateMove(angle) /\ SelectedEdgeShown) =>
              LET points == Get(elements', selectedElement).points
                  delta == (angle - RotateHandleAngle) % 360
              IN /\ points = RotatedAbout(initialRotatePoints, rotationCenter, delta)
                 /\ angle = RotateHandleAngle => points = initialRotatePoints]_vars

(* C29: edges never carry a rotation field. No scene the editor reaches     *)
(* has an edge whose rotation is set, and a rotateSelected on an edge       *)
(* leaves the edge with its points rotated by 90 degrees about the centre   *)
(* of its bounding box and with the box recomputed from them.               *)
C29_EdgesHaveNoRotation ==
    /\ \A i \in 1..Len(elements) :
          elements[i].type = "edge" => elements[i].rotation = NoRotation
    /\ (lastOp.op = "rotateSelected" /\ SelectedEdgeShown) =>
          LET before == Get(history[historyIndex], selectedElement)
              after == Get(elements, selectedElement)
              centre == Pt(Half(MinOf(PointsOrBox(before), "x")
                                + MaxOf(PointsOrBox(before), "x")),
                           Half(MinOf(PointsOrBox(before), "y")
                                + MaxOf(PointsOrBox(before), "y")))
          IN after = WithPoints(before, RotatedAbout(PointsOrBox(before), centre, 90))

(* C30: operations on a missing id are silent no-ops. When the selection    *)
(* names an id that is not in the scene, saveTextEdit, rotateSelected,      *)
(* deleteSelected, changeFillColor, the Delete key and the pointer-moves of *)
(* a resize or rotate gesture leave the scene, history and historyIndex     *)
(* unchanged and do not call onXmlUpdate.                                   *)
C30_MissingIdIsNoOp ==
    [][(/\ selectedElement # Null
        /\ ~Has(elements, selectedElement)
        /\ lastOp'.op \in {"saveTextEdit", "rotateSelected", "deleteSelected",
                           "changeFillColor", "DeleteKey", "handleResizeMove",
                           "handleRotateMove"}) =>
          /\ UNCHANGED << elements, history, historyIndex >>
          /\ ~lastOp'.emit]_vars

---------------------------------------------------------------------------
(* Properties of clicks, decoding, moving, rotating and styling *)

(* C31: a plain click does not commit. A pointer-down on an element         *)
(* followed by the pointer-up, with no pointer-move in between, leaves      *)
(* history and historyIndex unchanged and does not call onXmlUpdate, so     *)
(* history gains no entry equal to its predecessor from a selection click.  *)
C31_PlainClickDoesNotCommit ==
    [][(lastOp.op = "startDrag" /\ lastOp'.op = "handleMouseUp") =>
          /\ UNCHANGED << history, historyIndex >>
          /\ ~lastOp'.emit
          /\ ~lastOp'.commit]_vars

(* the cells of document doc that carry the elements of scene els *)
ElementCells(doc, els) ==
    SeqFilter(doc.cells, LAMBDA c : c.id.has /\ c.id.v \in Ids(els))

(* one source point, one target point and at most one waypoint array *)
EdgeGeometryIsSingle(geometry) ==
    /\ Len(SeqFilter(geometry.kids, LAMBDA n : n.tag = "mxPoint"
                                       /\ n.as = Attr("sourcePoint"))) = 1
    /\ Len(SeqFilter(geometry.kids, LAMBDA n : n.tag = "mxPoint"
                                       /\ n.as = Attr("targetPoint"))) = 1
    /\ Len(SeqFilter(geometry.kids, LAMBDA n : n.tag = "Array")) <= 1

---------------------------------------------------------------------------
(* parseXmlToElements on documents the host may hand over *)

MaxDecodeSteps == 1

(* a cell that is neither an edge nor has a geometry *)
CellGroup ==
    MxCell(Attr("6"), Attr("group"), NoStyleAttr, NoAttr, NoAttr, NoAttr,
           NoAttr, Attr("1"), << >>)

(* an edge cell without a geometry *)
CellBareEdge ==
    MxCell(Attr("7"), NoAttr, NoStyleAttr, NoAttr, Attr("1"), Attr("2"),
           Attr("3"), Attr("1"), << >>)

(* a cell with a geometry whose edge attribute is "0" *)
CellUnflagged ==
    [VertexCell("8", 200, 160, 80, 40, "C") EXCEPT !.vertex = NoAttr,
                                                    !.edge = Attr("0")]

(* a vertex whose geometry has no x and no width, and an empty y and height *)
CellLoose ==
    [VertexCell("9", 0, 0, 0, 0, "D") EXCEPT
        !.geoms = << MxGeometry(NoNum, EmptyNum, NoNum, EmptyNum, NoAttr, << >>) >>]

(* a vertex whose x and width are text that parseFloat cannot read *)
CellJunk ==
    [VertexCell("10", 0, 0, 0, 0, "E") EXCEPT
        !.geoms = << MxGeometry(JunkNum, Num(40), JunkNum, Num(60), NoAttr, << >>) >>]

DecodeCells ==
    { VertexCell("2", 40, 40, 120, 60, "A"),
      EdgeCell("4", Attr("2"), Attr("3"), Pt(100, 70), Pt(360, 70),
               << Pt(180, 140) >>),
      [VertexCell("", 200, 160, 120, 60, "C") EXCEPT !.id = NoAttr],
      RootCell("1"),
      CellGroup, CellBareEdge, CellUnflagged, CellLoose, CellJunk }

(* the structural cells followed by two different cells, in either order *)
DecodeDocs ==
    { doc \in { XmlDoc(<< RootCell("0"), RootCell("1"), a, b >>) :
                    a \in DecodeCells, b \in DecodeCells } :
        doc.cells[3] # doc.cells[4] }

InitDecode == \E doc \in DecodeDocs : Mounted(doc, MaxDecodeSteps) /\ editor = "full"
NextDecode == \E doc \in DecodeDocs : loadXml(doc)
SpecDecode == InitDecode /\ [][NextDecode]_vars

(* the cells that yield an element: not "0" or "1", and an edge or with a   *)
(* geometry                                                                 *)
YieldsElement(cell) ==
    /\ AttrOr(cell.id, "") \notin {"0", "1"}
    /\ cell.edge = Attr("1") \/ cell.geoms # << >>

(* C33: decode classification and order. The decoded scene has, in document *)
(* order, exactly one element for each mxCell whose id is neither "0" nor   *)
(* "1" and that has the edge flag set (an edge) or, failing that, has a     *)
(* geometry (a vertex); every other cell contributes no element.            *)
C33_DecodeClassifies ==
    lastOp.op \in {"mount", "loadXml"} =>
        LET cells == SeqFilter(xml.cells, YieldsElement)
        IN /\ Len(elements) = Len(cells)
           /\ \A k \in 1..Len(cells) :
                 /\ elements[k].id = AttrOr(cells[k].id, "")
                 /\ elements[k].type = IF cells[k].edge = Attr("1") THEN "edge"
                                       ELSE "vertex"

(* a loaded document with an edge that has no geometry next to a cell that  *)
(* yields no element                                                        *)
C33_Witness ==
    /\ lastOp.op = "loadXml"
    /\ \E i, j \in 1..Len(xml.cells) :
          /\ i < j
          /\ xml.cells[i] = CellGroup
          /\ xml.cells[j] = CellBareEdge
    /\ Len(elements) = 1 /\ elements[1].type = "edge"

(* the value the claim gives a numeric attribute: its number, or the       *)
(* default when it is missing, empty or not a number                        *)
NumberOr(a, dflt) == IF a.k = "num" THEN a.v ELSE dflt

(* C34: decoded numbers are finite, with the stated defaults. Every decoded *)
(* element has finite x, y, width, height and point coordinates; a vertex   *)
(* attribute that is missing or is not a number decodes to 0, except width  *)
(* and height, which decode to 120 and 60.                                  *)
C34_DecodedNumbersFinite ==
    lastOp.op \in {"mount", "loadXml"} =>
        LET cells == SeqFilter(xml.cells, YieldsElement)
        IN \A k \in 1..Len(elements) :
              LET el == elements[k]
                  geometry == cells[k].geoms[1]
              IN /\ NaN \notin {el.x, el.y, el.width, el.height}
                 /\ \A i \in 1..Len(el.points) :
                       NaN \notin {el.points[i].x, el.points[i].y}
                 /\ el.type = "vertex" =>
                       /\ el.x = NumberOr(geometry.x, 0)
                       /\ el.y = NumberOr(geometry.y, 0)
                       /\ el.width = NumberOr(geometry.width, 120)
                       /\ el.height = NumberOr(geometry.height, 60)

---------------------------------------------------------------------------
(* Dragging an element, in the full editor and in the basic editor *)

MaxMoveSteps == 4

(* basic editor: pointer-down on an element; the selection is left alone *)
basicStartDrag(elementId, pos) ==
    /\ editor = "basic" /\ ByButton /\ ~isEditingText
    /\ Has(elements, elementId)
    /\ Event("basic:startDrag", FALSE, FALSE)
    /\ isDragging' = TRUE
    /\ dragStart' = pos
    /\ dragOffset' = Pt(Get(elements, elementId).x, Get(elements, elementId).y)
    /\ buttonDown' = TRUE
    /\ UNCHANGED << xml, elements, selectedElement, isResizing, isRotating,
                    resizeHandle, rotationCenter, dragMode, dragPointIndex,
                    initialEdgePoints, initialRotatePoints, textVars,
                    clipboard, historyVars, currentTool, arrowSource, emitted,
                    idCounter >>

(* basic editor: pointer-move while dragging *)
basicMouseMove(pos) ==
    /\ editor = "basic"
    /\ isDragging
    /\ Event("basic:handleMouseMove", FALSE, FALSE)
    /\ IF selectedElement = Null
       THEN UNCHANGED elements
       ELSE elements' = MapSelected(elements, selectedElement,
                LAMBDA el : [el EXCEPT !.x = dragOffset.x + (pos.x - dragStart.x),
                                       !.y = dragOffset.y + (pos.y - dragStart.y)])
    /\ UNCHANGED << xml, selectedElement, gestureVars, textVars, clipboard,
                    historyVars, currentTool, arrowSource, emitted, idCounter >>

(* basic editor: pointer-up while dragging *)
basicMouseUp ==
    /\ editor = "basic"
    /\ buttonDown /\ isDragging
    /\ Event("basic:handleMouseUp", TRUE, TRUE)
    /\ isDragging' = FALSE
    /\ emitted' = basicElementsToXml(elements, xml)
    /\ Commit(elements)
    /\ buttonDown' = FALSE
    /\ UNCHANGED << xml, elements, selectedElement, isResizing, isRotating,
                    dragOffset, dragStart, resizeHandle, rotationCenter,
                    dragMode, dragPointIndex, initialEdgePoints,
                    initialRotatePoints, textVars, clipboard, currentTool,
                    arrowSource, idCounter >>

InitMove == Mounted(DocGraph, MaxMoveSteps) /\ editor \in {"full", "basic"}

NextMove ==
    \/ editor = "full" /\ \E id \in Ids(elements) : handleElementClick(id)
    \/ editor = "full" /\ \E id \in Ids(elements), pos \in DownPositions :
                              MouseDownElement(id, pos)
    \/ editor = "full" /\ \E pos \in Positions : handleMouseMove(pos)
    \/ editor = "full" /\ handleMouseUp
    \/ \E id \in Ids(elements) : basicElementClick(id)
    \/ \E id \in Ids(elements), pos \in DownPositions : basicStartDrag(id, pos)
    \/ \E pos \in Positions : basicMouseMove(pos)
    \/ basicMouseUp

SpecMove == InitMove /\ [][NextMove]_vars

(* element el translated by (dx, dy) *)
Translated(el, dx, dy) ==
    IF el.type = "edge"
    THEN WithPoints(el, MovedBy(PointsOrBox(el), dx, dy))
    ELSE [el EXCEPT !.x = @ + dx, !.y = @ + dy]

(* C35: move semantics and frame. At every pointer-move of a drag of a      *)
(* vertex or of a whole edge, with the pointer displaced by (dx, dy) since  *)
(* the press, the scene is the scene before the drag with one element       *)
(* translated by (dx, dy) from where it was before the drag (a vertex keeps *)
(* its width and height, an edge has every point translated and its box     *)
(* recomputed) and every other element unchanged.                           *)
C35_DragTranslates ==
    [][\A pos \in Positions :
          ((handleMouseMove(pos) \/ basicMouseMove(pos)) /\ pos # dragStart) =>
             LET before == history[historyIndex + 1]
                 dx == pos.x - dragStart.x
                 dy == pos.y - dragStart.y
             IN \E i \in 1..Len(before) :
                   elements' = [before EXCEPT ![i] = Translated(before[i], dx, dy)]]_vars

---------------------------------------------------------------------------
(* Properties of resizing an edge, rotating a vertex and restyling *)

(* no coordinate of the scene els is NaN *)
AllFinite(els) ==
    \A i \in 1..Len(els) :
       /\ NaN \notin {els[i].x, els[i].y, els[i].width, els[i].height}
       /\ \A k \in 1..Len(els[i].points) :
             NaN \notin {els[i].points[k].x, els[i].points[k].y}

(* the points of the selected edge span no width or no height *)
SelectedEdgeIsFlat ==
    /\ SelectedEdgeShown
    /\ LET points == PointsOrBox(Get(elements, selectedElement))
       IN \/ MaxOf(points, "x") = MinOf(points, "x")
          \/ MaxOf(points, "y") = MinOf(points, "y")

C37_VertexRotation ==
    [][(lastOp'.op \in {"handleRotateMove", "rotateSelected"} /\ SelectedVertex) =>
          LET old == Get(elements, selectedElement)
              new == Get(elements', selectedElement)
          IN /\ new.rotation \in 0..359
             /\ new = [old EXCEPT !.rotation = new.rotation]
             /\ lastOp'.op = "rotateSelected" =>
                   new.rotation = ((IF old.rotation = NoRotation THEN 0
                                    ELSE old.rotation) + 90) % 360]_vars

---------------------------------------------------------------------------
(* Restyling elements whose style strings come from the loaded document *)

MaxStyleSteps == 4

(* "ellipse;whiteSpace=wrap;fillColor=#dae8fc;fillColor=#ffffff;": a flag   *)
(* without a value and a key written twice                                  *)
StyleEllipse ==
    << << "ellipse" >>, StyleSeg("whiteSpace", "wrap"),
       StyleSeg("fillColor", "#dae8fc"), StyleSeg("fillColor", "#ffffff"),
       TrailingSemi >>

(* "shape=image;image=data:image/png,iVBORw0KGgo=;": the value of image     *)
(* ends with the "=" of its base64 padding, so that the segment has three   *)
(* parts around its two "="                                                 *)
StyleImage ==
    << StyleSeg("shape", "image"),
       << "image", "data:image/png,iVBORw0KGgo", "" >>, TrailingSemi >>

(* blocks styled by the document, and an edge *)
DocStyled ==
    XmlDoc(<< RootCell("0"), RootCell("1"),
              [VertexCell("2", 40, 40, 120, 60, "A") EXCEPT !.style = Attr(StyleEllipse)],
              [VertexCell("3", 300, 40, 120, 60, "B") EXCEPT !.style = Attr(StyleImage)],
              VertexCell("5", 200, 160, 120, 60, "C"),
              EdgeCell("4", Attr("2"), Attr("3"), Pt(100, 70), Pt(360, 70), << >>) >>)

InitStyle == Mounted(DocStyled, MaxStyleSteps) /\ editor = "full"

NextStyle ==
    \/ \E id \in Ids(elements) : handleElementClick(id)
    \/ \E color \in FillColors : changeFillColor(color)
    \/ \E color \in StrokeColors : changeStrokeColor(color)
    \/ undo

SpecStyle == InitStyle /\ [][NextStyle]_vars

(* the style string as a mapping: the keys written in it, and for a key the *)
(* text after the first "=" of the last segment that writes it, as the      *)
(* parts of that text around its further "="                                *)
StyleKeys(style) == {style[i][1] : i \in 1..Len(style)} \ {""}
StyleValue(style, k) ==
    LET last == CHOOSE i \in 1..Len(style) :
                   /\ style[i][1] = k
                   /\ \A j \in (i + 1)..Len(style) : style[j][1] # k
    IN Tail(style[last])
StyleHasValue(style, k) ==
    k \in StyleKeys(style) /\ StyleValue(style, k) \notin {<< >>, << "" >>}

(* the style of `new` is the style of `old` with key k set to color *)
StyleUpdated(old, new, k, color) ==
    /\ StyleHasValue(new, k) /\ StyleValue(new, k) = << color >>
    /\ \A other \in StyleKeys(old) \ {k} :
          StyleHasValue(old, other) =>
             /\ other \in StyleKeys(new)
             /\ StyleValue(new, other) = StyleValue(old, other)
    /\ \A other \in StyleKeys(new) \ {k} : StyleHasValue(old, other)

---------------------------------------------------------------------------
(* CanvasEditor: connecting, copying, pasting and deleting *)

MaxCanvasSteps == 4

CanvasTools == {"select", "connector"}
CanvasPositions == {Pt(100, 60), Pt(360, 70), Pt(200, 160)}

(* CanvasEditor's saveToHistory: the history holds encoded documents, and   *)
(* the scene encoded is the one of the render the handler was created in    *)
canvasSaveToHistory ==
    /\ history' = Append(SubSeq(history, 1, historyIndex + 1),
                         canvasElementsToXml(elements, xml))
    /\ historyIndex' = Len(history') - 1

canvasSetTool(tool) ==
    /\ editor = "canvas" /\ ByButton
    /\ tool # currentTool
    /\ Event("canvas:setTool", FALSE, FALSE)
    /\ currentTool' = tool
    /\ UNCHANGED << xml, elements, selectedElement, gestureVars, textVars,
                    clipboard, historyVars, arrowSource, emitted, idCounter >>

(* startDrawing with the connector tool; arrowSource stands for connectingFrom *)
canvasStartConnecting(pos) ==
    /\ editor = "canvas" /\ ByButton
    /\ currentTool = "connector"
    /\ Event("canvas:startConnecting", FALSE, FALSE)
    /\ LET at == FirstWhere(elements, LAMBDA el : isPointInElement(pos, el))
       IN IF at # 0 /\ elements[at].type = "vertex"
          THEN arrowSource' = elements[at].id
          ELSE UNCHANGED arrowSource
    /\ buttonDown' = TRUE
    /\ UNCHANGED << xml, elements, selectedElement, isDragging, isResizing,
                    isRotating, dragOffset, dragStart, resizeHandle,
                    rotationCenter, dragMode, dragPointIndex,
                    initialEdgePoints, initialRotatePoints, textVars,
                    clipboard, historyVars, currentTool, emitted, idCounter >>

(* the edge stopDrawing creates between two vertices *)
NewConnection(sourceId, targetId) ==
    Edge(FreshId, 0, 0, 0, 0, "",
         << StyleSeg("endArrow", "classic"), StyleSeg("html", "1"),
            StyleSeg("rounded", "0"), TrailingSemi >>,
         sourceId, targetId, << >>)

(* stopDrawing while connectingFrom is set *)
canvasStopConnecting(pos) ==
    /\ editor = "canvas"
    /\ buttonDown /\ ~isDragging /\ ~isResizing
    /\ arrowSource # Null
    /\ LET at == FirstWhere(elements, LAMBDA el :
                    /\ isPointInElement(pos, el)
                    /\ el.type = "vertex" /\ el.id # arrowSource)
           updated == Append(elements, NewConnection(arrowSource, elements[at].id))
       IN /\ Event("canvas:connect", FALSE, at # 0)
          /\ IF at # 0
             THEN /\ elements' = updated
                  /\ emitted' = canvasElementsToXml(updated, xml)
                  /\ idCounter' = idCounter + 1
             ELSE UNCHANGED << elements, emitted, idCounter >>
    /\ arrowSource' = Null
    /\ buttonDown' = FALSE
    /\ UNCHANGED << xml, selectedElement, isDragging, isResizing, isRotating,
                    dragOffset, dragStart, resizeHandle, rotationCenter,
                    dragMode, dragPointIndex, initialEdgePoints,
                    initialRotatePoints, textVars, clipboard, historyVars,
                    currentTool >>

(* copySelectedElements; clipboard stands for the one-element list *)
canvasCopySelected ==
    /\ editor = "canvas" /\ ByButton
    /\ selectedElement # Null
    /\ Event("canvas:copySelectedElements", FALSE, FALSE)
    /\ clipboard' = IF Has(elements, selectedElement)
                    THEN Get(elements, selectedElement) ELSE NoElement
    /\ UNCHANGED << xml, elements, selectedElement, gestureVars, textVars,
                    historyVars, currentTool, arrowSource, emitted, idCounter >>

pasteElements ==
    /\ editor = "canvas" /\ ByButton
    /\ clipboard # NoElement
    /\ Event("canvas:pasteElements", TRUE, TRUE)
    /\ LET newElement == [clipboard EXCEPT !.id = FreshId,
                                           !.x = clipboard.x + 20,
                                           !.y = clipboard.y + 20]
           updated == Append(elements, newElement)
       IN /\ elements' = updated
          /\ selectedElement' = newElement.id
          /\ emitted' = canvasElementsToXml(updated, xml)
          /\ canvasSaveToHistory
          /\ idCounter' = idCounter + 1
    /\ UNCHANGED << xml, gestureVars, textVars, clipboard, currentTool,
                    arrowSource >>

deleteSelectedElements ==
    /\ editor = "canvas" /\ ByButtonOrKey
    /\ selectedElement # Null
    /\ Event("canvas:deleteSelectedElements", TRUE, TRUE)
    /\ LET updated == SeqFilter(elements, LAMBDA el : el.id # selectedElement)
       IN /\ elements' = updated
          /\ selectedElement' = Null
          /\ emitted' = canvasElementsToXml(updated, xml)
          /\ canvasSaveToHistory
    /\ UNCHANGED << xml, gestureVars, textVars, clipboard, currentTool,
                    arrowSource, idCounter >>

InitCanvas ==
    /\ Loaded(DocBlocks, MaxCanvasSteps)
    /\ history = << >> /\ historyIndex = NoIndex
    /\ editor = "canvas"

NextCanvas ==
    \/ \E tool \in CanvasTools : canvasSetTool(tool)
    \/ currentTool = "select" /\ \E pos \in CanvasPositions : canvasStartDrawing(pos)
    \/ \E pos \in CanvasPositions : canvasDraw(pos)
    \/ arrowSource = Null /\ canvasStopDrawing
    \/ \E pos \in CanvasPositions : canvasStartConnecting(pos)
    \/ \E pos \in CanvasPositions : canvasStopConnecting(pos)
    \/ canvasCopySelected
    \/ pasteElements
    \/ deleteSelectedElements

SpecCanvas == InitCanvas /\ [][NextCanvas]_vars

(* C39: CanvasEditor's emitted XML reflects its scene. The document that    *)
(* CanvasEditor hands to onXmlUpdate after it has created a connection,     *)
(* pasted or deleted has an mxCell for every element of its scene and none  *)
(* for an element that the step deleted.                                    *)
C39_CanvasXmlReflectsScene ==
    [][(/\ lastOp'.op \in {"canvas:connect", "canvas:pasteElements",
                           "canvas:deleteSelectedElements"}
        /\ lastOp'.emit) =>
          /\ Ids(elements') \subseteq DocIds(emitted')
          /\ (Ids(elements) \ Ids(elements')) \cap DocIds(emitted') = {}]_vars

---------------------------------------------------------------------------
(* ChatInterface next to the editor: a message and its timer *)

MaxRaceSteps == 4

(* what a message asks for *)
Request(kind, a, b) == [kind |-> kind, a |-> a, b |-> b]
ChatRequests ==
    {Request("add", "cpu", ""), Request("remove", "B", ""),
     Request("connect", "A", "B")}

(* makeActualXmlChanges(userInput, xml): the document after the request and *)
(* whether a change was made                                                *)
makeActualXmlChanges(request, doc) ==
    LET first == FirstWhere(doc.cells,
                     LAMBDA c : c.id.has /\ ValueContains(c, request.a))
        componentId == doc.cells[first].id
        kept == SeqFilter(doc.cells,
                    LAMBDA c : /\ ~ValueContains(c, request.a)
                               /\ (first # 0 =>
                                     /\ c.source # componentId
                                     /\ c.target # componentId))
        found == \E i \in 1..Len(doc.cells) : ValueContains(doc.cells[i], request.a)
        id1 == findComponentId(doc, request.a)
        id2 == findComponentId(doc, request.b)
    IN CASE request.kind = "add" ->
              [modifiedXml |-> InsertedBeforeRootEnd(doc,
                                  ComponentCell(newIdText(doc), request.a, 400, 200)),
               changed |-> TRUE]
         [] request.kind = "remove" ->
              [modifiedXml |-> IF found THEN XmlDoc(kept) ELSE doc,
               changed |-> found]
         [] OTHER ->
              IF id1 # "" /\ id2 # ""
              THEN [modifiedXml |-> InsertedBeforeRootEnd(doc,
                                       ConnectionCell(newIdText(doc), id1, id2)),
                    changed |-> TRUE]
              ELSE [modifiedXml |-> doc, changed |-> FALSE]

(* handleSendMessage: the timer closes over the request and over the        *)
(* xmlContent prop of the render in which the message is sent; the input    *)
(* and the button are disabled until the timer has fired                    *)
handleSendMessage(request) ==
    /\ pendingChat = NoRequest
    /\ Delivered("handleSendMessage", FALSE, FALSE)
    /\ pendingChat' = [kind |-> "pending", request |-> request,
                       xmlContent |-> xml]
    /\ UNCHANGED << xml, elements, selectedElement, gestureVars, textVars,
                    clipboard, historyVars, currentTool, arrowSource, emitted,
                    idCounter >>

(* the callback of setTimeout(..., 1500) *)
chatTimeout ==
    /\ pendingChat # NoRequest
    /\ pendingChat.xmlContent.kind # "empty"
    /\ NewIdInRange(pendingChat.xmlContent)
    /\ LET result == makeActualXmlChanges(pendingChat.request,
                                          pendingChat.xmlContent)
       IN /\ Delivered("chatTimeout", FALSE, result.changed)
          /\ IF result.changed
             THEN /\ xmlChanged(result.modifiedXml)
                  /\ emitted' = xml'
             ELSE UNCHANGED << xml, elements, historyVars, emitted >>
    /\ pendingChat' = NoRequest
    /\ UNCHANGED << selectedElement, gestureVars, textVars, clipboard,
                    currentTool, arrowSource, idCounter >>

InitRace == Mounted(DocGraph, MaxRaceSteps) /\ editor = "full"

NextRace ==
    \/ hostEcho
    \/ ~EchoPending /\ \E request \in ChatRequests : handleSendMessage(request)
    \/ ~EchoPending /\ chatTimeout
    \/ ~EchoPending /\ \E pos \in DownPositions : DropShape(pos)
    \/ ~EchoPending /\ \E id \in Ids(elements) : handleElementClick(id)
    \/ ~EchoPending /\ deleteSelected

SpecRace == InitRace /\ [][NextRace]_vars

(* C40: no lost update between chat and editor. The document the chat puts  *)
(* in place when its timer fires is the request applied to the document     *)
(* that is current at that moment, so an update made between sending and    *)
(* firing is still in it.                                                   *)
C40_ChatAppliesToCurrentDocument ==
    [][(lastOp'.op = "chatTimeout" /\ lastOp'.emit) =>
          xml' = makeActualXmlChanges(pendingChat.request, xml).modifiedXml]_vars

====
